---- MODULE Spec2Model ----
(***************************************************************************)
(* Versioned-file, pending-commit and pull-request workflow of the         *)
(* repository manager: the service functions of lib/s3Service.ts,          *)
(* lib/pullRequestService.ts, lib/repositoryService.ts and                 *)
(* lib/notificationService.ts over one blob store (an S3 bucket) and one   *)
(* document store (Firestore collections).                                 *)
(*                                                                         *)
(* Every action is one call of a service function, run to its return: the  *)
(* awaited store calls happen in the order of the code, and a store call   *)
(* that throws is an input of the action (which write fails).  The wall    *)
(* clock read by `new Date()` is the variable now; it advances only by     *)
(* Tick, so two calls may read the same millisecond.                       *)
(***************************************************************************)
EXTENDS Integers, Sequences, FiniteSets, TLC

----------------------------------------------------------------------------
(* Bounds of the model *)

\* the clock runs over 1..MaxTime
MaxTime == 2
\* calls per behaviour of the file-store specification
MaxFileOps == 2
\* calls per behaviour of the pending-commit specification
MaxPendingOps == 3
\* calls per behaviour of the pull-request specification
MaxPROps == 3
\* pull requests per behaviour of the pull-request specification
MaxPullRequests == 1
\* calls per behaviour of the repository-registry specification
MaxRepoOps == 3
\* calls per behaviour of the access-request specification
MaxAccessOps == 4
\* calls per behaviour of the fork specification
MaxForkOps == 2
\* calls per behaviour of the notification specification
MaxNotifOps == 3
\* calls per behaviour of the editor specification
MaxEditorOps == 3
\* commits started per behaviour of the interleaved-commit specification
MaxCommitOps == 2
\* calls per behaviour of the interleaved-merge specification
MaxMergeOps == 3
\* clock values per second of the model's clock
MsPerSecond == 2

----------------------------------------------------------------------------
(* Callers, identifiers and contents *)

Users == {"alice", "bob"}
\* getCurrentUser() returned null
NoUser == "nobody"
Callers == Users \cup {NoUser}

\* User.email of the signed-in user
Email(u) == IF u # NoUser THEN u \o "@example.com" ELSE ""

\* currentUser.email || currentUser.uid
AuthorOf(u) == IF Email(u) # "" THEN Email(u) ELSE u

FileNames == {"a.txt", "b.txt"}
\* file contents as text; "" is the empty file
Contents == {"", "x", "y"}

\* isTextFile: the extension allow-list; the model's names all end in .txt
IsTextFile(fileName) == fileName \in {"a.txt", "b.txt", "c.txt", "d.txt"}

\* `!content` on a decoded text body
Falsy(content) == content = ""

\* '' or undefined where a timestamp is expected (previousVersionTimestamp || '')
NoTime == 0
Times == 1..MaxTime

----------------------------------------------------------------------------
(* Commit messages.  A message is the text the caller typed plus what the  *)
(* code appends to it: " (from <date>)" on restore, " (Approved by <who>)" *)
(* on approval, "Merge PR #<id>: " in front on merge.                      *)

\* no pull request: the id of a document not yet added
NoPullRequest == 0

UserMsg(text) == [text |-> text, refs |-> <<>>, by |-> <<>>, pr |-> NoPullRequest]
NoMsg == UserMsg("")
CommitTexts == {"update"}

\* new Date(timestamp).toLocaleString(): the instant as shown to the user, to
\* the second; the milliseconds are dropped
ToLocaleString(t) == (t - 1) \div MsPerSecond

\* `${commitMessage} (from ${new Date(timestamp).toLocaleString()})`
WithFrom(msg, t) == [msg EXCEPT !.refs = Append(@, ToLocaleString(t))]

\* `${metadata.message} (Approved by ${currentUser.email})`
WithApprovedBy(msg, u) == [msg EXCEPT !.by = Append(@, Email(u))]

\* `Merge PR #${pullRequestId.substring(0, 8)}: ${pullRequest.title}`
MergeMsg(prId, title) == [text |-> title, refs |-> <<>>, by |-> <<>>, pr |-> prId]

\* the default value of restoreFileVersion's commitMessage parameter
DefaultRestoreMsg == UserMsg("Restored previous version")
\* the message the history page passes to restoreFileVersion
UIRestoreMsg(t) == WithFrom(UserMsg("Restored version"), t)
RestoreMsgs(t) == {DefaultRestoreMsg, UIRestoreMsg(t)}

----------------------------------------------------------------------------
(* Blob key scheme: repositories/{repoId}/{folder}/{fileName}[/{ts}.ext]   *)

FileKey(repoId, fileName) ==
    [folder |-> "files", repoId |-> repoId, fileName |-> fileName, version |-> NoTime]
HistoryKey(repoId, fileName, timestamp) ==
    [folder |-> "history", repoId |-> repoId, fileName |-> fileName, version |-> timestamp]
CommitKey(repoId, fileName, timestamp) ==
    [folder |-> "commits", repoId |-> repoId, fileName |-> fileName, version |-> timestamp]
PendingKeyInFiles(repoId, fileName, timestamp) ==
    [folder |-> "files", repoId |-> repoId, fileName |-> fileName, version |-> NoTime]
PendingKey(repoId, fileName, timestamp) ==
    [folder |-> "pending", repoId |-> repoId, fileName |-> fileName, version |-> timestamp]
PendingMetaKey(repoId, fileName, timestamp) ==
    [folder |-> "pending-meta", repoId |-> repoId, fileName |-> fileName, version |-> timestamp]

\* item.Key.split('/').pop()?.replace('.txt', '')
TimestampOfKey(key) == key.version

----------------------------------------------------------------------------
VARIABLES
    s3,             \* the bucket: blob key -> blob
    repositories,   \* collection "repositories": id -> document
    pullRequests,   \* collection "pullRequests": id -> document
    notifications,  \* collection "notifications": sequence of documents
    accessRequests, \* collection "accessRequests": id -> document
    inflight,       \* calls that made their checks and await their write
    lastCommitTime, \* state of the open file editor: time of the last commit
    commitFailed,   \* history: a commit taken step by step has returned a failure
    now,            \* the wall clock, in milliseconds
    ops,            \* calls made so far
    last            \* the last call and what it returned

vars == <<s3, repositories, pullRequests, accessRequests, notifications, inflight,
         lastCommitTime, commitFailed, now, ops, last>>
docVars == <<repositories, pullRequests, notifications>>

----------------------------------------------------------------------------
(* The blob store client *)

\* the Metadata bag of PutObjectCommand; fields a writer does not set are empty
Metadata(userId, userEmail, uploadedAt, originalFilename, commitMessage, timestamp, previousVersion) ==
    [userId |-> userId, userEmail |-> userEmail, uploadedAt |-> uploadedAt,
     originalFilename |-> originalFilename, commitMessage |-> commitMessage,
     timestamp |-> timestamp, previousVersion |-> previousVersion]

\* s3Client.send(new PutObjectCommand(...)): creates or overwrites the key
PutObject(store, key, body, contentType, metadata, t) ==
    [k \in DOMAIN store \cup {key} |->
        IF k = key
        THEN [body |-> body, contentType |-> contentType, metadata |-> metadata,
              lastModified |-> t]
        ELSE store[k]]

\* s3Client.send(new DeleteObjectCommand(...)): no error when the key is absent
DeleteObject(store, key) == [k \in DOMAIN store \ {key} |-> store[k]]

\* s3Client.send(new ListObjectsV2Command({Prefix, Delimiter: '/'}))
ListObjects(store, folder, repoId, fileName) ==
    {k \in DOMAIN store : k.folder = folder /\ k.repoId = repoId /\ k.fileName = fileName}

EmptyStore == [k \in {} |-> 0]

----------------------------------------------------------------------------
(* What a call returns, kept in last *)

NoCall ==
    [op |-> "init", caller |-> NoUser, ok |-> TRUE, err |-> "", repo |-> "", file |-> "",
     ts |-> NoTime, content |-> "", msg |-> NoMsg, pr |-> NoPullRequest,
     status |-> "", approve |-> FALSE, failAt |-> 0, failFile |-> "", docFail |-> 0,
     name |-> "", description |-> "", isPublic |-> FALSE, awaiting |-> FALSE,
     filesCopied |-> 0, report |-> [count |-> 0, shown |-> <<>>, more |-> FALSE],
     faults |-> <<>>, notif |-> 0]

Failure(op, caller, err) == [NoCall EXCEPT !.op = op, !.caller = caller, !.ok = FALSE, !.err = err]

----------------------------------------------------------------------------
(* Versioned file store: lib/s3Service.ts *)

NoMetadata == Metadata("", "", NoTime, "", NoMsg, NoTime, NoTime)

\* the commit-metadata JSON (commitData)
CommitData(message, timestamp, author, previousVersion) ==
    [message |-> message, timestamp |-> timestamp, author |-> author,
     previousVersion |-> previousVersion]

\* the write that fails, if any: 0 none, 1 current content, 2 history, 3 commit metadata
FailPoints == 0..3

\* uploadFileToS3, as a function of the bucket: the caller is getCurrentUser()
UploadFileToS3(store, cu, repoId, fileName, fileContent, contentType, t, putFails) ==
    LET finalContentType ==
            IF contentType = "" \/ contentType = "text/plain"
            THEN (IF IsTextFile(fileName) THEN "text/plain" ELSE "application/octet-stream")
            ELSE contentType
    IN  IF cu = NoUser
        THEN [success |-> FALSE, error |-> "User not authenticated", store |-> store]
        ELSE IF Falsy(fileContent)
        THEN [success |-> FALSE, error |-> "File content cannot be empty", store |-> store]
        ELSE IF putFails
        THEN [success |-> FALSE, error |-> "Failed to upload file to S3", store |-> store]
        ELSE [success |-> TRUE, error |-> "",
              store |-> PutObject(store, FileKey(repoId, fileName), fileContent,
                                  finalContentType,
                                  Metadata(cu, "", t, fileName, NoMsg, NoTime, NoTime), t)]

\* downloadFileFromS3 / getFileContent
DownloadFileFromS3(store, repoId, fileName, getFails) ==
    IF getFails \/ FileKey(repoId, fileName) \notin DOMAIN store
    THEN [success |-> FALSE, content |-> ""]
    ELSE [success |-> TRUE, content |-> store[FileKey(repoId, fileName)].body]

\* the history snapshot commitFileVersion writes (step 2)
HistoryMetadataNoMessage(u, commitMessage, t, previousVersion) ==
    Metadata(u, Email(u), NoTime, "", NoMsg, t, previousVersion)
HistoryMetadata(u, commitMessage, t, previousVersion) ==
    Metadata(u, Email(u), NoTime, "", commitMessage, t, previousVersion)

\* the three writes of commitFileVersion, up to the one that throws
CommitWritesAllOrNothing(store, u, repoId, fileName, fileContent, commitMessage, previousVersion, t, failAt) ==
    IF failAt # 0 THEN store
    ELSE PutObject(
             PutObject(
                 PutObject(store, FileKey(repoId, fileName), fileContent, "text/plain",
                           Metadata(u, Email(u), t, fileName, NoMsg, NoTime, NoTime), t),
                 HistoryKey(repoId, fileName, t), fileContent, "text/plain",
                 HistoryMetadata(u, commitMessage, t, previousVersion), t),
             CommitKey(repoId, fileName, t),
             CommitData(commitMessage, t, AuthorOf(u), previousVersion),
             "application/json", NoMetadata, t)
CommitWrites(store, u, repoId, fileName, fileContent, commitMessage, previousVersion, t, failAt) ==
    LET s1 == PutObject(store, FileKey(repoId, fileName), fileContent, "text/plain",
                        Metadata(u, Email(u), t, fileName, NoMsg, NoTime, NoTime), t)
        s2 == PutObject(s1, HistoryKey(repoId, fileName, t), fileContent, "text/plain",
                        HistoryMetadata(u, commitMessage, t, previousVersion), t)
        s3c == PutObject(s2, CommitKey(repoId, fileName, t),
                         CommitData(commitMessage, t, AuthorOf(u), previousVersion),
                         "application/json", NoMetadata, t)
    IN  CASE failAt = 1 -> store
          [] failAt = 2 -> s1
          [] failAt = 3 -> s2
          [] OTHER      -> s3c

\* getFileVersion
GetFileVersion(store, repoId, fileName, timestamp, fromPending) ==
    LET fileKey == IF fromPending THEN PendingKey(repoId, fileName, timestamp)
                   ELSE HistoryKey(repoId, fileName, timestamp)
    IN  IF fileKey \in DOMAIN store
        THEN [success |-> TRUE, content |-> store[fileKey].body, error |-> ""]
        ELSE [success |-> FALSE, content |-> "", error |-> "Version not found"]

\* a set of records with distinct timestamps, newest first
RECURSIVE NewestFirst(_)
NewestFirst(S) ==
    IF S = {} THEN <<>>
    ELSE LET top == CHOOSE e \in S : \A o \in S : o.timestamp <= e.timestamp
         IN  <<top>> \o NewestFirst(S \ {top})

\* listFileCommits: one entry per history key, from the key and its Metadata
ListFileCommits(store, repoId, fileName) ==
    NewestFirst({[key |-> k,
                  timestamp |-> TimestampOfKey(k),
                  commitMessage |-> store[k].metadata.commitMessage,
                  userId |-> store[k].metadata.userId,
                  userEmail |-> store[k].metadata.userEmail,
                  previousVersion |-> store[k].metadata.previousVersion]
                 : k \in ListObjects(store, "history", repoId, fileName)})

----------------------------------------------------------------------------
(* Initial state: an empty bucket and empty collections *)

Init ==
    /\ s3 = EmptyStore
    /\ repositories = EmptyStore
    /\ pullRequests = EmptyStore
    /\ accessRequests = EmptyStore
    /\ inflight = {}
    /\ lastCommitTime = NoTime
    /\ commitFailed = FALSE
    /\ notifications = <<>>
    /\ now = 1
    /\ ops = 0
    /\ last = NoCall

\* the clock advances
Tick ==
    /\ now < MaxTime
    /\ now' = now + 1
    /\ last' = [NoCall EXCEPT !.op = "tick"]
    /\ UNCHANGED <<commitFailed, lastCommitTime, accessRequests, inflight, s3, docVars, ops>>

\* uploadFileToS3 called from the upload dialog
UploadFile(u, repoId, fileName, fileContent, putFails) ==
    LET res == UploadFileToS3(s3, u, repoId, fileName, fileContent, "text/plain", now, putFails)
    IN  /\ s3' = res.store
        /\ last' = IF res.success
                   THEN [NoCall EXCEPT !.op = "uploadFileToS3", !.caller = u,
                                       !.repo = repoId, !.file = fileName,
                                       !.content = fileContent]
                   ELSE Failure("uploadFileToS3", u, res.error)
        /\ UNCHANGED <<commitFailed, lastCommitTime, accessRequests, inflight, docVars, now>>
        /\ ops' = ops + 1

\* commitFileVersion
CommitFileVersion(u, repoId, fileName, fileContent, commitMessage, previousVersion, failAt) ==
    /\ s3' = IF u = NoUser THEN s3
             ELSE CommitWrites(s3, u, repoId, fileName, fileContent, commitMessage,
                               previousVersion, now, failAt)
    /\ last' = IF u = NoUser THEN Failure("commitFileVersion", u, "User not authenticated")
               ELSE IF failAt # 0
               THEN [Failure("commitFileVersion", u, "Failed to commit file version")
                        EXCEPT !.repo = repoId, !.file = fileName, !.failAt = failAt]
               ELSE [NoCall EXCEPT !.op = "commitFileVersion", !.caller = u,
                                   !.repo = repoId, !.file = fileName, !.ts = now,
                                   !.content = fileContent, !.msg = commitMessage]
    /\ UNCHANGED <<commitFailed, lastCommitTime, accessRequests, inflight, docVars, now>>
    /\ ops' = ops + 1

\* restoreFileVersion
RestoreFileVersion(u, repoId, fileName, timestamp, commitMessage, failAt) ==
    LET versionResult == GetFileVersion(s3, repoId, fileName, timestamp, FALSE)
        restoreCommitMessage == WithFrom(commitMessage, timestamp)
    IN  /\ s3' = IF u = NoUser \/ ~versionResult.success \/ Falsy(versionResult.content)
                 THEN s3
                 ELSE CommitWrites(s3, u, repoId, fileName, versionResult.content,
                                   restoreCommitMessage, NoTime, now, failAt)
        /\ last' = IF u = NoUser
                   THEN Failure("restoreFileVersion", u, "User not authenticated")
                   ELSE IF ~versionResult.success
                   THEN Failure("restoreFileVersion", u, versionResult.error)
                   ELSE IF Falsy(versionResult.content)
                   THEN Failure("restoreFileVersion", u, "Failed to retrieve file version")
                   ELSE IF failAt # 0
                   THEN [Failure("restoreFileVersion", u, "Failed to commit file version")
                            EXCEPT !.repo = repoId, !.file = fileName, !.failAt = failAt]
                   ELSE [NoCall EXCEPT !.op = "restoreFileVersion", !.caller = u,
                                       !.repo = repoId, !.file = fileName,
                                       !.ts = timestamp, !.msg = restoreCommitMessage]
        /\ UNCHANGED <<commitFailed, lastCommitTime, accessRequests, inflight, docVars, now>>
        /\ ops' = ops + 1

\* deleteFileFromS3: removes the current content only; no caller check
DeleteFileFromS3(u, repoId, fileName, deleteFails) ==
    /\ s3' = IF deleteFails THEN s3 ELSE DeleteObject(s3, FileKey(repoId, fileName))
    /\ last' = IF deleteFails
               THEN Failure("deleteFileFromS3", u, "Failed to delete file from S3")
               ELSE [NoCall EXCEPT !.op = "deleteFileFromS3", !.caller = u,
                                   !.repo = repoId, !.file = fileName]
    /\ UNCHANGED <<commitFailed, lastCommitTime, accessRequests, inflight, docVars, now>>
    /\ ops' = ops + 1

\* the previousVersionTimestamp the editor passes: none, or a time it has seen
PreviousVersions == {NoTime} \cup 1..now

\* the file-store calls: one repository, one signed-in user or nobody signed in
FileRepo == "r1"
FileCallers == {"alice", NoUser}

NextFile ==
    \/ Tick
    \/ /\ ops < MaxFileOps
       /\ \/ \E u \in FileCallers, f \in FileNames, c \in Contents, pf \in BOOLEAN :
                UploadFile(u, FileRepo, f, c, pf)
          \/ \E u \in FileCallers, f \in FileNames, c \in Contents, text \in CommitTexts,
                prev \in PreviousVersions, failAt \in FailPoints :
                CommitFileVersion(u, FileRepo, f, c, UserMsg(text), prev, failAt)
          \/ \E u \in FileCallers, f \in FileNames, t \in Times, failAt \in FailPoints :
                \E m \in RestoreMsgs(t) : RestoreFileVersion(u, FileRepo, f, t, m, failAt)
          \/ \E u \in FileCallers, f \in FileNames, df \in BOOLEAN :
                DeleteFileFromS3(u, FileRepo, f, df)

SpecFile == Init /\ [][NextFile]_vars

----------------------------------------------------------------------------
(* Notification mailbox: lib/notificationService.ts *)

\* the details bag of a notification; fields a notification type does not use are empty
Details(repositoryId, fileName, commitTimestamp, pullRequestId, comment) ==
    [repositoryId |-> repositoryId, fileName |-> fileName,
     commitTimestamp |-> commitTimestamp, pullRequestId |-> pullRequestId,
     comment |-> comment]

\* a document of collection "notifications"
NotificationDoc(userId, type, details, t, createdBy) ==
    [userId |-> userId, type |-> type, message |-> type, details |-> details,
     read |-> FALSE, createdAt |-> t, createdBy |-> createdBy]

\* createNotification, as a function of the collection: addFails is addDoc throwing
CreateNotification(notifs, cu, userId, type, details, t, addFails) ==
    IF userId = "" \/ cu = NoUser \/ addFails
    THEN notifs
    ELSE Append(notifs, NotificationDoc(userId, type, details, t, cu))

----------------------------------------------------------------------------
(* Repository registry: lib/repositoryService.ts *)

\* a document of collection "repositories"
RepositoryDoc(name, description, ownerId, t, isPublic, collaborators, forkedFrom) ==
    [name |-> name, description |-> description, ownerId |-> ownerId,
     createdAt |-> t, updatedAt |-> t, isPublic |-> isPublic,
     collaborators |-> collaborators, forkedFrom |-> forkedFrom]

\* the owner test of processPendingCommit, updateRepository and deleteRepository
IsOwnerOrCollaborator(repository, u) ==
    repository.ownerId = u \/ u \in repository.collaborators
IsOwner(repository, u) == repository.ownerId = u

\* the projection getRepository returns of a private repository to a stranger:
\* id, name, ownerId, description and the timestamps, isPublic false, no
\* collaborators, no forkedFrom
RedactedKeepsLineage(repository) ==
    [repository EXCEPT !.isPublic = FALSE, !.collaborators = {}]
Redacted(repository) ==
    [repository EXCEPT !.isPublic = FALSE, !.collaborators = {}, !.forkedFrom = ""]

\* getRepository: the document as read now; a private repository is returned
\* redacted to a caller who is neither its owner nor a collaborator
GetRepository(repos, cu, id) ==
    IF cu = NoUser
    THEN [success |-> FALSE, error |-> "User not authenticated"]
    ELSE IF id \notin DOMAIN repos
    THEN [success |-> FALSE, error |-> "Repository not found"]
    ELSE LET repository == repos[id]
         IN  IF /\ ~repository.isPublic
                /\ repository.ownerId # cu
                /\ cu \notin repository.collaborators
             THEN [success |-> TRUE, error |-> "", repository |-> Redacted(repository)]
             ELSE [success |-> TRUE, error |-> "", repository |-> repository]

\* updateRepository(id, updates) with updates = {ownerId}: the owner hands the
\* repository to another user
UpdateRepositoryOwner(u, id, newOwner, updateFails) ==
    LET res == GetRepository(repositories, u, id)
        allowed == res.success /\ IsOwner(res.repository, u) /\ ~updateFails
    IN  /\ repositories' =
              IF allowed
              THEN [repositories EXCEPT ![id].ownerId = newOwner, ![id].updatedAt = now]
              ELSE repositories
        /\ last' = IF allowed
                   THEN [NoCall EXCEPT !.op = "updateRepository", !.caller = u, !.repo = id]
                   ELSE IF ~res.success
                   THEN Failure("updateRepository", u, res.error)
                   ELSE IF ~IsOwner(res.repository, u)
                   THEN Failure("updateRepository", u, "Only the owner can update this repository")
                   ELSE Failure("updateRepository", u, "Failed to update repository")
        /\ UNCHANGED <<commitFailed, lastCommitTime, accessRequests, inflight, s3, pullRequests, notifications, now>>
        /\ ops' = ops + 1

----------------------------------------------------------------------------
(* Upload with commit: lib/s3Service.ts, used by approval and by merge *)

\* uploadFileWithCommit: user is the `user` argument, cu is getCurrentUser()
UploadFileWithCommit(store, cu, user, repoId, fileName, fileContent, commitMessage, t, failAt) ==
    LET currentUser == IF user # NoUser THEN user ELSE cu
        uploadResult == UploadFileToS3(store, cu, repoId, fileName, fileContent,
                                       "text/plain", t, failAt = 1)
        s1 == uploadResult.store
        s2 == PutObject(s1, HistoryKey(repoId, fileName, t), fileContent, "text/plain",
                        Metadata(currentUser, Email(currentUser), NoTime, "",
                                 commitMessage, t, NoTime), t)
        s3c == PutObject(s2, CommitKey(repoId, fileName, t),
                         CommitData(commitMessage, t, AuthorOf(currentUser), NoTime),
                         "application/json", NoMetadata, t)
    IN  IF currentUser = NoUser
        THEN [success |-> FALSE, store |-> store]
        ELSE IF ~uploadResult.success
        THEN [success |-> FALSE, store |-> store]
        ELSE IF failAt = 2
        THEN [success |-> FALSE, store |-> s1]
        ELSE IF failAt = 3
        THEN [success |-> FALSE, store |-> s2]
        ELSE [success |-> TRUE, store |-> s3c]

----------------------------------------------------------------------------
(* Pending-commit approval flow: lib/s3Service.ts *)

\* the pending-metadata JSON; processedBy, processedAt and comment are absent
\* (empty) until the request is processed
PendingData(message, timestamp, author, authorId, fileName, status, processedBy, processedAt, comment) ==
    [message |-> message, timestamp |-> timestamp, author |-> author,
     authorId |-> authorId, fileName |-> fileName, status |-> status,
     processedBy |-> processedBy, processedAt |-> processedAt, comment |-> comment]

\* {...metadata, status, processedBy, processedAt, comment}
Processed(metadata, status, u, t, comment) ==
    [metadata EXCEPT !.status = status, !.processedBy = AuthorOf(u),
                     !.processedAt = t, !.comment = comment]

\* the write of createPendingCommit that fails, if any: 1 pending blob, 2 pending metadata
PendingFailPoints == 0..2

\* createPendingCommit
CreatePendingCommit(u, repoId, fileName, fileContent, commitMessage, failAt, notifyFails) ==
    LET t == now
        s1 == PutObject(s3, PendingKey(repoId, fileName, t), fileContent, "text/plain",
                        Metadata(u, Email(u), NoTime, "", commitMessage, t, NoTime), t)
        s2 == PutObject(s1, PendingMetaKey(repoId, fileName, t),
                        PendingData(commitMessage, t, AuthorOf(u), u, fileName,
                                    "pending", "", NoTime, ""),
                        "application/json", NoMetadata, t)
        repoResult == GetRepository(repositories, u, repoId)
        written == u # NoUser /\ failAt = 0
    IN  /\ s3' = IF u = NoUser \/ failAt = 1 THEN s3
                 ELSE IF failAt = 2 THEN s1
                 ELSE s2
        /\ notifications' =
              IF written /\ repoResult.success /\ repoResult.repository.ownerId # u
              THEN CreateNotification(notifications, u, repoResult.repository.ownerId,
                                      "commit_request",
                                      Details(repoId, fileName, t, "", ""), t, notifyFails)
              ELSE notifications
        /\ last' = IF u = NoUser
                   THEN Failure("createPendingCommit", u, "User not authenticated")
                   ELSE IF failAt # 0
                   THEN [Failure("createPendingCommit", u, "Failed to create pending commit")
                            EXCEPT !.repo = repoId, !.file = fileName, !.failAt = failAt]
                   ELSE [NoCall EXCEPT !.op = "createPendingCommit", !.caller = u,
                                       !.repo = repoId, !.file = fileName, !.ts = t,
                                       !.content = fileContent, !.msg = commitMessage]
        /\ UNCHANGED <<commitFailed, lastCommitTime, accessRequests, inflight, repositories, pullRequests, now>>
        /\ ops' = ops + 1

\* processPendingCommit.  uploadFailAt is the write of uploadFileWithCommit that
\* fails (its result is not looked at), metaPutFails the write of the updated
\* metadata, notifyFails the notification's addDoc.
ProcessPendingCommit(u, repoId, requestId, fileName, approve, comment, uploadFailAt, metaPutFails, notifyFails) ==
    LET repoResult == GetRepository(repositories, u, repoId)
        metadataKey == PendingMetaKey(repoId, fileName, requestId)
        pendingKey == PendingKey(repoId, fileName, requestId)
        authorized == u # NoUser /\ repoResult.success /\ IsOwner(repoResult.repository, u)
        found == metadataKey \in DOMAIN s3 /\ (approve => pendingKey \in DOMAIN s3)
        metadata == s3[metadataKey].body
        committed ==
            UploadFileWithCommit(s3, u, u, repoId, fileName, s3[pendingKey].body,
                                 WithApprovedBy(metadata.message, u), now, uploadFailAt).store
        s1 == IF approve THEN committed ELSE s3
        s2 == PutObject(s1, metadataKey,
                        Processed(metadata, IF approve THEN "approved" ELSE "rejected",
                                  u, now, comment),
                        "application/json", NoMetadata, now)
        failed(err) == [Failure("processPendingCommit", u, err)
                           EXCEPT !.repo = repoId, !.file = fileName, !.ts = requestId,
                                  !.approve = approve]
    IN  /\ s3' = IF ~authorized \/ ~found THEN s3
                 ELSE IF metaPutFails THEN s1
                 ELSE s2
        /\ notifications' =
              IF authorized /\ found /\ ~metaPutFails
              THEN CreateNotification(notifications, u, metadata.authorId,
                                      IF approve THEN "commit_request_approved"
                                      ELSE "commit_request_rejected",
                                      Details(repoId, fileName, requestId, "", comment),
                                      now, notifyFails)
              ELSE notifications
        /\ last' = IF u = NoUser THEN failed("User not authenticated")
                   ELSE IF ~repoResult.success THEN failed(repoResult.error)
                   ELSE IF ~IsOwner(repoResult.repository, u)
                   THEN failed("Only the repository owner can approve commit requests")
                   ELSE IF ~found \/ metaPutFails THEN failed("Failed to access commit request")
                   ELSE [NoCall EXCEPT !.op = "processPendingCommit", !.caller = u,
                                       !.repo = repoId, !.file = fileName,
                                       !.ts = requestId, !.approve = approve,
                                       !.failAt = uploadFailAt]
        /\ UNCHANGED <<commitFailed, lastCommitTime, accessRequests, inflight, repositories, pullRequests, now>>
        /\ ops' = ops + 1

\* the pending-commit specification starts after alice created the private
\* repository r1 and approved bob's access request
InitPending ==
    /\ s3 = EmptyStore
    /\ repositories = [id \in {"r1"} |->
                          RepositoryDoc("demo", "", "alice", 1, FALSE, {"bob"}, "")]
    /\ pullRequests = EmptyStore
    /\ accessRequests = EmptyStore
    /\ inflight = {}
    /\ lastCommitTime = NoTime
    /\ commitFailed = FALSE
    /\ notifications = <<>>
    /\ now = 1
    /\ ops = 0
    /\ last = NoCall

PendingRepo == "r1"
PendingFile == "a.txt"
ReviewComment == "reviewed"
\* the contents a collaborator submits
PendingContents == {"", "x"}

\* the request ids the review page and the notifications offer: those of the
\* pending-metadata blobs (getPendingCommitRequests)
RequestIds(store, repoId, fileName) ==
    {TimestampOfKey(k) : k \in ListObjects(store, "pending-meta", repoId, fileName)}

NextPending ==
    \/ Tick
    \/ /\ ops < MaxPendingOps
       /\ \/ \E u \in Callers, c \in PendingContents, text \in CommitTexts,
                failAt \in PendingFailPoints, nf \in BOOLEAN :
                CreatePendingCommit(u, PendingRepo, PendingFile, c, UserMsg(text), failAt, nf)
          \/ \E u \in Callers, requestId \in RequestIds(s3, PendingRepo, PendingFile),
                approve \in BOOLEAN,
                mf \in BOOLEAN, nf \in BOOLEAN :
                \E uploadFailAt \in (IF approve THEN FailPoints ELSE {0}) :
                ProcessPendingCommit(u, PendingRepo, requestId, PendingFile, approve,
                                     ReviewComment, uploadFailAt, mf, nf)
          \/ \E c \in Contents \ {""}, text \in CommitTexts :
                CommitFileVersion("alice", PendingRepo, PendingFile, c, UserMsg(text), NoTime, 0)
          \/ \E u \in Callers, newOwner \in Users, uf \in BOOLEAN :
                UpdateRepositoryOwner(u, PendingRepo, newOwner, uf)

SpecPending == InitPending /\ [][NextPending]_vars

----------------------------------------------------------------------------
(* Pull requests: lib/pullRequestService.ts *)

\* a document of collection "pullRequests"
PullRequestDoc(title, sourceRepoId, targetRepoId, targetOwnerId, status, t, createdBy, changedFiles) ==
    [title |-> title, sourceRepoId |-> sourceRepoId, targetRepoId |-> targetRepoId,
     targetOwnerId |-> targetOwnerId, status |-> status, createdAt |-> t,
     updatedAt |-> t, createdBy |-> createdBy, changedFiles |-> changedFiles]

\* the id addDoc gives the next document of the collection
NewPullRequestId(prs) == Cardinality(DOMAIN prs) + 1

\* getPullRequest
GetPullRequest(prs, pullRequestId) ==
    IF pullRequestId \in DOMAIN prs
    THEN [success |-> TRUE, error |-> "", pullRequest |-> prs[pullRequestId]]
    ELSE [success |-> FALSE, error |-> "Pull request not found"]

\* the order in which the bucket lists the file names of a repository
FileOrder == <<"a.txt", "b.txt", "c.txt", "d.txt">>

\* listRepositoryFiles: one record per current-content blob; the records carry
\* name, path, size, contentType, createdAt and downloadUrl
ListRepositoryFiles(store, repoId) ==
    LET present == SelectSeq(FileOrder, LAMBDA f : FileKey(repoId, f) \in DOMAIN store)
    IN  [i \in DOMAIN present |->
            [name |-> present[i], path |-> FileKey(repoId, present[i]),
             contentType |-> store[FileKey(repoId, present[i])].contentType,
             createdAt |-> store[FileKey(repoId, present[i])].lastModified]]

\* file.lastModified of a record of listRepositoryFiles: the property is not set
LastModifiedOf(file) == "undefined"

\* getChangedFiles: the source files that are absent from the target or whose
\* lastModified differs
GetChangedFiles(store, cu, sourceRepoId, targetRepoId, listFails) ==
    LET sourceFiles == ListRepositoryFiles(store, sourceRepoId)
        targetFiles == ListRepositoryFiles(store, targetRepoId)
        changed(sourceFile) ==
            \/ ~\E j \in DOMAIN targetFiles : targetFiles[j].name = sourceFile.name
            \/ \E j \in DOMAIN targetFiles :
                  /\ targetFiles[j].name = sourceFile.name
                  /\ LastModifiedOf(sourceFile) # LastModifiedOf(targetFiles[j])
        names == [i \in DOMAIN sourceFiles |-> sourceFiles[i].name]
    IN  IF cu = NoUser
        THEN [success |-> FALSE, error |-> "User not authenticated", files |-> <<>>]
        ELSE IF listFails
        THEN [success |-> FALSE, error |-> "Failed to list repository files", files |-> <<>>]
        ELSE [success |-> TRUE, error |-> "",
              files |-> SelectSeq(names, LAMBDA f :
                            \E i \in DOMAIN sourceFiles :
                                sourceFiles[i].name = f /\ changed(sourceFiles[i]))]

\* the notification documents pullRequestService adds itself
PullRequestNotification(userId, type, pullRequestId, comment, t) ==
    NotificationDoc(userId, type, Details("", "", NoTime, pullRequestId, comment), t, "")

\* the write to the document store that throws, if any: 1 the pull request
\* (addDoc / updateDoc), 2 the notification (addDoc)
DocFailPoints == 0..2

\* createPullRequest
CreatePullRequest(u, title, sourceRepoId, targetRepoId, targetOwnerId, changedFiles, listFails, docFail) ==
    LET changedFilesResult == GetChangedFiles(s3, u, sourceRepoId, targetRepoId, listFails)
        filesToChange == IF Len(changedFiles) = 0 /\ changedFilesResult.success
                         THEN changedFilesResult.files
                         ELSE changedFiles
        id == NewPullRequestId(pullRequests)
        newPullRequest == PullRequestDoc(title, sourceRepoId, targetRepoId, targetOwnerId,
                                         "open", now, u, filesToChange)
        added == u # NoUser /\ docFail # 1
    IN  /\ pullRequests' =
              IF added
              THEN [i \in DOMAIN pullRequests \cup {id} |->
                       IF i = id THEN newPullRequest ELSE pullRequests[i]]
              ELSE pullRequests
        /\ notifications' =
              IF added /\ docFail # 2
              THEN Append(notifications,
                          PullRequestNotification(targetOwnerId, "pull_request_created",
                                                  id, "", now))
              ELSE notifications
        /\ last' = IF u = NoUser
                   THEN Failure("createPullRequest", u, "User not authenticated")
                   ELSE IF docFail # 0
                   THEN [Failure("createPullRequest", u, "Failed to create pull request")
                            EXCEPT !.docFail = docFail]
                   ELSE [NoCall EXCEPT !.op = "createPullRequest", !.caller = u,
                                       !.repo = targetRepoId, !.pr = id]
        /\ UNCHANGED <<commitFailed, lastCommitTime, accessRequests, inflight, s3, repositories, now>>
        /\ ops' = ops + 1

\* the permission test of updatePullRequestStatus
MayUpdateAnyStatus(pullRequest, u, status) == TRUE
MayUpdate(pullRequest, u, status) ==
    ~(pullRequest.targetOwnerId # u /\ status # "closed")

\* `pull_request_${status}`
PullRequestType(status) ==
    CASE status = "merged"   -> "pull_request_merged"
      [] status = "rejected" -> "pull_request_rejected"
      [] status = "closed"   -> "pull_request_closed"
      [] OTHER               -> "pull_request_open"

\* the body of updatePullRequestStatus, as a function of the two collections
UpdateStatus(prs, notifs, cu, pullRequestId, status, comment, t, docFail) ==
    LET res == GetPullRequest(prs, pullRequestId)
        unchanged(err) == [success |-> FALSE, error |-> err, prs |-> prs, notifs |-> notifs]
        updated == [prs EXCEPT ![pullRequestId].status = status,
                               ![pullRequestId].updatedAt = t]
    IN  IF cu = NoUser THEN unchanged("User not authenticated")
        ELSE IF ~res.success THEN unchanged(res.error)
        ELSE IF ~MayUpdate(res.pullRequest, cu, status)
        THEN unchanged("Only the repository owner can update this pull request")
        ELSE IF docFail = 1 THEN unchanged("Failed to update pull request")
        ELSE IF docFail = 2
        THEN [success |-> FALSE, error |-> "Failed to update pull request",
              prs |-> updated, notifs |-> notifs]
        ELSE [success |-> TRUE, error |-> "", prs |-> updated,
              notifs |-> Append(notifs,
                                PullRequestNotification(res.pullRequest.createdBy,
                                                        PullRequestType(status),
                                                        pullRequestId, comment, t))]

\* updatePullRequestStatus, called for reject and close
UpdatePullRequestStatus(u, pullRequestId, status, comment, docFail) ==
    LET res == UpdateStatus(pullRequests, notifications, u, pullRequestId, status,
                            comment, now, docFail)
    IN  /\ pullRequests' = res.prs
        /\ notifications' = res.notifs
        /\ last' = IF res.success
                   THEN [NoCall EXCEPT !.op = "updatePullRequestStatus", !.caller = u,
                                       !.pr = pullRequestId, !.status = status]
                   ELSE [Failure("updatePullRequestStatus", u, res.error)
                            EXCEPT !.pr = pullRequestId, !.status = status,
                                   !.docFail = docFail]
        /\ UNCHANGED <<commitFailed, lastCommitTime, accessRequests, inflight, s3, repositories, now>>
        /\ ops' = ops + 1

\* the two preconditions of mergePullRequest
IsTargetOwner(pullRequest, u) == pullRequest.targetOwnerId = u
IsOpenOrMerged(pullRequest) == pullRequest.status \in {"open", "merged"}
IsOpen(pullRequest) == pullRequest.status = "open"

\* `This pull request is already ${pullRequest.status}`
AlreadyError(status) ==
    CASE status = "merged"   -> "This pull request is already merged"
      [] status = "rejected" -> "This pull request is already rejected"
      [] OTHER               -> "This pull request is already closed"

\* what stops the copy of one file, if anything: 1..3 the write of
\* uploadFileWithCommit that fails, 4 getFileContent fails
MergeFailPoints == 0..4

\* the loop of mergePullRequest over changedFiles: a file whose content cannot
\* be read, or is empty, is skipped; the result of the upload is only counted
RECURSIVE MergeFiles(_, _, _, _, _, _, _, _)
MergeFiles(store, cu, pullRequestId, pullRequest, files, t, failFile, failAt) ==
    IF Len(files) = 0 THEN store
    ELSE LET fileName == Head(files)
             fails == IF fileName = failFile THEN failAt ELSE 0
             sourceFileResult == DownloadFileFromS3(store, pullRequest.sourceRepoId,
                                                    fileName, fails = 4)
             copied ==
                 IF ~sourceFileResult.success \/ Falsy(sourceFileResult.content)
                 THEN store
                 ELSE UploadFileWithCommit(store, cu, cu, pullRequest.targetRepoId,
                                           fileName, sourceFileResult.content,
                                           MergeMsg(pullRequestId, pullRequest.title),
                                           t, fails).store
         IN  MergeFiles(copied, cu, pullRequestId, pullRequest, Tail(files), t,
                        failFile, failAt)

\* mergePullRequest
MergePullRequest(u, pullRequestId, comment, failFile, failAt, listFails, docFail) ==
    LET res == GetPullRequest(pullRequests, pullRequestId)
        pullRequest == res.pullRequest
        allowed == /\ u # NoUser /\ res.success
                   /\ IsTargetOwner(pullRequest, u) /\ IsOpen(pullRequest)
        changedFilesResult == GetChangedFiles(s3, u, pullRequest.sourceRepoId,
                                              pullRequest.targetRepoId, listFails)
        computed == Len(pullRequest.changedFiles) = 0
        changedFiles == IF computed THEN changedFilesResult.files
                        ELSE pullRequest.changedFiles
        merging == allowed /\ (computed => changedFilesResult.success)
        statusResult == UpdateStatus(pullRequests, notifications, u, pullRequestId,
                                     "merged", comment, now, docFail)
        failed(err) == [Failure("mergePullRequest", u, err) EXCEPT !.pr = pullRequestId]
    IN  /\ s3' = IF merging
                 THEN MergeFiles(s3, u, pullRequestId, pullRequest, changedFiles, now,
                                 failFile, failAt)
                 ELSE s3
        /\ pullRequests' = IF merging THEN statusResult.prs ELSE pullRequests
        /\ notifications' = IF merging THEN statusResult.notifs ELSE notifications
        /\ last' = IF u = NoUser THEN failed("User not authenticated")
                   ELSE IF ~res.success THEN failed(res.error)
                   ELSE IF ~IsTargetOwner(pullRequest, u)
                   THEN failed("Only the repository owner can merge this pull request")
                   ELSE IF ~IsOpen(pullRequest)
                   THEN failed(AlreadyError(pullRequest.status))
                   ELSE IF ~merging THEN failed(changedFilesResult.error)
                   ELSE [NoCall EXCEPT !.op = "mergePullRequest", !.caller = u,
                                       !.pr = pullRequestId, !.status = "merged",
                                       !.failFile = failFile, !.failAt = failAt,
                                       !.docFail = docFail]
        /\ UNCHANGED <<commitFailed, lastCommitTime, accessRequests, inflight, repositories, now>>
        /\ ops' = ops + 1

\* the pull-request specification starts after alice created the public
\* repository r1, bob forked it into r2 and committed a.txt and b.txt there
SourceRepo == "r2"
TargetRepo == "r1"
PRTitle == "Updates from demo"
\* what bob committed to a.txt and to b.txt: nothing (an emptied file) or text
SourceContents == {"", "x"}

InitPR ==
    /\ \E ca \in SourceContents, cb \in SourceContents :
          s3 = CommitWrites(
                   CommitWrites(EmptyStore, "bob", SourceRepo, "a.txt", ca,
                                UserMsg("update"), NoTime, 1, 0),
                   "bob", SourceRepo, "b.txt", cb, UserMsg("update"), NoTime, 1, 0)
    /\ repositories =
          [id \in {TargetRepo, SourceRepo} |->
              IF id = TargetRepo
              THEN RepositoryDoc("demo", "", "alice", 1, TRUE, {}, "")
              ELSE RepositoryDoc("demo", "", "bob", 1, TRUE, {}, TargetRepo)]
    /\ pullRequests = EmptyStore
    /\ accessRequests = EmptyStore
    /\ inflight = {}
    /\ lastCommitTime = NoTime
    /\ commitFailed = FALSE
    /\ notifications = <<>>
    /\ now = 1
    /\ ops = 0
    /\ last = NoCall

\* the changedFiles argument the create page passes: none, or the list it computed
ChangedFileLists == {<<>>, <<"a.txt", "b.txt">>}

\* the pull requests the pages offer: those of the collection (getPullRequests)
PullRequestIds(prs) == DOMAIN prs

\* the faults a merge can meet: none when the call is refused before its first
\* read of the bucket; listing faults only when the changed files are computed
MergeFaults(u, id, points) ==
    IF IsTargetOwner(pullRequests[id], u) /\ IsOpen(pullRequests[id]) THEN points ELSE {0}
ListFaults(u, id) ==
    IF /\ IsTargetOwner(pullRequests[id], u) /\ IsOpen(pullRequests[id])
       /\ Len(pullRequests[id].changedFiles) = 0
    THEN BOOLEAN ELSE {FALSE}

NextPR ==
    \/ Tick
    \/ /\ ops < MaxPROps
       /\ \/ \E u \in Callers, files \in ChangedFileLists, lf \in BOOLEAN,
                df \in DocFailPoints :
                /\ Cardinality(DOMAIN pullRequests) < MaxPullRequests
                /\ CreatePullRequest(u, PRTitle, SourceRepo, TargetRepo,
                                     repositories[TargetRepo].ownerId, files, lf, df)
          \/ \E u \in Callers, id \in PullRequestIds(pullRequests) :
                \E failAt \in MergeFaults(u, id, MergeFailPoints),
                   lf \in ListFaults(u, id), df \in MergeFaults(u, id, DocFailPoints) :
                \E failFile \in (IF failAt = 0 THEN {""} ELSE FileNames) :
                MergePullRequest(u, id, ReviewComment, failFile, failAt, lf, df)
          \/ \E u \in Callers, id \in PullRequestIds(pullRequests),
                status \in {"rejected", "closed"} :
                \E df \in (IF MayUpdate(pullRequests[id], u, status) /\ u # NoUser
                           THEN DocFailPoints ELSE {0}) :
                UpdatePullRequestStatus(u, id, status, ReviewComment, df)
          \/ CommitFileVersion("alice", TargetRepo, "a.txt", "y", UserMsg("update"),
                               NoTime, 0)

SpecPR == InitPR /\ [][NextPR]_vars

----------------------------------------------------------------------------
(* Repository registry, continued: create, update, delete and fork *)

\* a call that has made its checks and awaits its write to the document store;
\* id is the number of the call, owner the ownerId it read
Call(id, op, caller, repo, name, description, isPublic, owner) ==
    [id |-> id, op |-> op, caller |-> caller, repo |-> repo, name |-> name,
     description |-> description, isPublic |-> isPublic, owner |-> owner]

\* the id addDoc gives a document: fresh for every call
NewDocId(call) == "r" \o ToString(call)

\* the query of createRepository and forkRepository:
\* where("ownerId", "==", uid), where("name", "==", name) is not empty
NameTakenAmongPublic(repos, ownerId, name) ==
    \E r \in DOMAIN repos :
        repos[r].ownerId = ownerId /\ repos[r].name = name /\ repos[r].isPublic
NameTaken(repos, ownerId, name) ==
    \E r \in DOMAIN repos : repos[r].ownerId = ownerId /\ repos[r].name = name

\* a collection with one more document
AddDoc(coll, id, document) ==
    [i \in DOMAIN coll \cup {id} |-> IF i = id THEN document ELSE coll[i]]

\* a collection without a document
DeleteDoc(coll, id) == [i \in DOMAIN coll \ {id} |-> coll[i]]

\* updateDoc(docRef, {...updates}): the named fields are replaced
UpdateDoc(coll, id, updates) ==
    [i \in DOMAIN coll |->
        IF i = id
        THEN [f \in DOMAIN coll[i] |->
                 IF f \in DOMAIN updates THEN updates[f] ELSE coll[i][f]]
        ELSE coll[i]]

\* createRepository up to its await of getDocs: the caller and the name are checked
CreateRepositoryBegin(u, name, description, isPublic) ==
    LET refused == u = NoUser \/ NameTaken(repositories, u, name)
    IN  /\ inflight' = IF refused THEN inflight
                       ELSE inflight \cup {Call(ops + 1, "createRepository", u, "", name,
                                                description, isPublic, u)}
        /\ last' = IF u = NoUser
                   THEN [Failure("createRepository", u, "User not authenticated")
                            EXCEPT !.name = name, !.description = description,
                                   !.isPublic = isPublic]
                   ELSE IF refused
                   THEN [Failure("createRepository", u,
                                 "A repository with this name already exists")
                            EXCEPT !.name = name, !.description = description,
                                   !.isPublic = isPublic]
                   ELSE [NoCall EXCEPT !.op = "createRepository", !.caller = u,
                                       !.name = name, !.description = description,
                                       !.isPublic = isPublic, !.awaiting = TRUE]
        /\ ops' = ops + 1
        /\ UNCHANGED <<commitFailed, lastCommitTime, s3, docVars, accessRequests, now>>

\* createRepository from its addDoc to its return
CreateRepositoryFinish(call, addFails) ==
    LET id == NewDocId(call.id)
        newRepository == RepositoryDoc(call.name, call.description, call.caller, now,
                                       call.isPublic, {}, "")
    IN  /\ call \in inflight /\ call.op = "createRepository"
        /\ inflight' = inflight \ {call}
        /\ repositories' = IF addFails THEN repositories
                           ELSE AddDoc(repositories, id, newRepository)
        /\ last' = IF addFails
                   THEN [Failure("createRepository", call.caller,
                                 "Failed to create repository")
                            EXCEPT !.name = call.name]
                   ELSE [NoCall EXCEPT !.op = "createRepository", !.caller = call.caller,
                                       !.repo = id, !.name = call.name]
        /\ UNCHANGED <<commitFailed, lastCommitTime, s3, pullRequests, notifications, accessRequests, now, ops>>

\* updateRepository(id, updates): updates is the record of the fields to replace
UpdateRepository(u, id, updates, updateFails) ==
    LET res == GetRepository(repositories, u, id)
        allowed == res.success /\ IsOwner(res.repository, u) /\ ~updateFails
        failed(err) == [Failure("updateRepository", u, err) EXCEPT !.repo = id]
    IN  /\ repositories' =
              IF allowed
              THEN UpdateDoc(UpdateDoc(repositories, id, updates), id,
                             [updatedAt |-> now])
              ELSE repositories
        /\ last' = IF allowed
                   THEN [NoCall EXCEPT !.op = "updateRepository", !.caller = u, !.repo = id]
                   ELSE IF ~res.success THEN failed(res.error)
                   ELSE IF ~IsOwner(res.repository, u)
                   THEN failed("Only the owner can update this repository")
                   ELSE failed("Failed to update repository")
        /\ ops' = ops + 1
        /\ UNCHANGED <<commitFailed, lastCommitTime, s3, pullRequests, notifications, accessRequests, inflight, now>>

\* deleteRepository: removes the document; the blobs stay
DeleteRepository(u, id, deleteFails) ==
    LET res == GetRepository(repositories, u, id)
        allowed == res.success /\ IsOwner(res.repository, u) /\ ~deleteFails
        failed(err) == [Failure("deleteRepository", u, err) EXCEPT !.repo = id]
    IN  /\ repositories' = IF allowed THEN DeleteDoc(repositories, id) ELSE repositories
        /\ last' = IF allowed
                   THEN [NoCall EXCEPT !.op = "deleteRepository", !.caller = u, !.repo = id]
                   ELSE IF ~res.success THEN failed(res.error)
                   ELSE IF ~IsOwner(res.repository, u)
                   THEN failed("Only the owner can delete this repository")
                   ELSE failed("Failed to delete repository")
        /\ ops' = ops + 1
        /\ UNCHANGED <<commitFailed, lastCommitTime, s3, pullRequests, notifications, accessRequests, inflight, now>>

\* `${sourceRepo.name}-fork`
ForkName(name) == name \o "-fork"

\* `Fork of ${sourceRepo.name}${sourceRepo.description ? `: ${...}` : ''}`
ForkDescription(sourceRepo) ==
    IF sourceRepo.description # ""
    THEN "Fork of " \o sourceRepo.name \o ": " \o sourceRepo.description
    ELSE "Fork of " \o sourceRepo.name

\* the permission test of forkRepository, on the record getRepository returned
MayFork(sourceRepo, u) ==
    ~(/\ ~sourceRepo.isPublic
      /\ sourceRepo.ownerId # u
      /\ u \notin sourceRepo.collaborators)

\* forkRepository: creates the fork's document; newName "" is no name given
ForkRepository(u, sourceRepoId, newName, addFails) ==
    LET res == GetRepository(repositories, u, sourceRepoId)
        sourceRepo == res.repository
        repoName == IF newName # "" THEN newName ELSE ForkName(sourceRepo.name)
        id == NewDocId(ops + 1)
        newRepository == RepositoryDoc(repoName, ForkDescription(sourceRepo), u, now,
                                       FALSE, {}, sourceRepoId)
        allowed == /\ res.success /\ MayFork(sourceRepo, u)
                   /\ ~NameTaken(repositories, u, repoName)
        failed(err) == [Failure("forkRepository", u, err) EXCEPT !.repo = sourceRepoId,
                                                                 !.name = newName]
    IN  /\ repositories' = IF allowed /\ ~addFails
                           THEN AddDoc(repositories, id, newRepository)
                           ELSE repositories
        /\ last' = IF ~res.success THEN failed(res.error)
                   ELSE IF ~MayFork(sourceRepo, u)
                   THEN failed("You do not have permission to fork this repository")
                   ELSE IF NameTaken(repositories, u, repoName)
                   THEN failed("A repository with this name already exists in your account")
                   ELSE IF addFails THEN failed("Failed to create repository document")
                   ELSE [NoCall EXCEPT !.op = "forkRepository", !.caller = u,
                                       !.repo = id, !.name = newName]
        /\ ops' = ops + 1
        /\ UNCHANGED <<commitFailed, lastCommitTime, s3, pullRequests, notifications, accessRequests, inflight, now>>

\* the names typed into the create form and the rename
RepoNames == {"demo", "lib"}
\* the description and visibility filled into the create form
CreateForms == {[description |-> "", isPublic |-> FALSE],
                [description |-> "about", isPublic |-> TRUE]}

\* the updates passed to updateRepository: a rename, or bob made a collaborator
RepoUpdates == {[name |-> name] : name \in RepoNames} \cup {[collaborators |-> {"bob"}]}
\* the repositories the pages offer: those of the collection
RepositoryIds(repos) == DOMAIN repos

NextRepo ==
    \/ Tick
    \/ \E call \in inflight, af \in BOOLEAN : CreateRepositoryFinish(call, af)
    \/ /\ ops < MaxRepoOps
       /\ \/ \E u \in Callers, name \in RepoNames, form \in CreateForms :
                CreateRepositoryBegin(u, name, form.description, form.isPublic)
          \/ \E u \in Callers, id \in RepositoryIds(repositories),
                updates \in RepoUpdates, uf \in BOOLEAN :
                UpdateRepository(u, id, updates, uf)
          \/ \E u \in Callers, id \in RepositoryIds(repositories), df \in BOOLEAN :
                DeleteRepository(u, id, df)
          \/ \E u \in Callers, id \in RepositoryIds(repositories),
                newName \in {"", "demo"}, af \in BOOLEAN :
                ForkRepository(u, id, newName, af)

SpecRepo == Init /\ [][NextRepo]_vars

----------------------------------------------------------------------------
(* Access requests: lib/repositoryService.ts *)

\* a document of collection "accessRequests"
AccessRequestDoc(repositoryId, repositoryName, ownerId, requesterId, status, t) ==
    [repositoryId |-> repositoryId, repositoryName |-> repositoryName,
     ownerId |-> ownerId, requesterId |-> requesterId, status |-> status,
     createdAt |-> t, updatedAt |-> t]

\* the query of requestRepositoryAccess: the pending requests of one requester
\* for one repository
PendingRequests(reqs, repositoryId, requesterId) ==
    {q \in DOMAIN reqs : /\ reqs[q].repositoryId = repositoryId
                         /\ reqs[q].requesterId = requesterId
                         /\ reqs[q].status = "pending"}

\* requestRepositoryAccess up to its await of getDocs: caller, repository,
\* membership and existing pending request are checked
RequestAccessBegin(u, repositoryId) ==
    LET res == GetRepository(repositories, u, repositoryId)
        repository == res.repository
        failed(err) == [Failure("requestRepositoryAccess", u, err)
                           EXCEPT !.repo = repositoryId]
        refusal ==
            IF ~res.success THEN res.error
            ELSE IF u \in repository.collaborators
            THEN "You already have access to this repository"
            ELSE IF repository.ownerId = u
            THEN "You are the owner of this repository"
            ELSE IF PendingRequests(accessRequests, repositoryId, u) # {}
            THEN "You already have a pending access request for this repository"
            ELSE ""
    IN  /\ inflight' = IF refusal # "" THEN inflight
                       ELSE inflight \cup
                            {Call(ops + 1, "requestRepositoryAccess", u, repositoryId,
                                  repository.name, "", FALSE, repository.ownerId)}
        /\ last' = IF refusal # "" THEN failed(refusal)
                   ELSE [NoCall EXCEPT !.op = "requestRepositoryAccess", !.caller = u,
                                       !.repo = repositoryId, !.awaiting = TRUE]
        /\ ops' = ops + 1
        /\ UNCHANGED <<commitFailed, lastCommitTime, s3, docVars, accessRequests, now>>

\* requestRepositoryAccess from its addDoc to its return; a notification that
\* cannot be written leaves the call a success
RequestAccessFinish(call, addFails, notifyFails) ==
    LET id == NewDocId(call.id)
        newAccessRequest == AccessRequestDoc(call.repo, call.name, call.owner,
                                             call.caller, "pending", now)
    IN  /\ call \in inflight /\ call.op = "requestRepositoryAccess"
        /\ inflight' = inflight \ {call}
        /\ accessRequests' = IF addFails THEN accessRequests
                             ELSE AddDoc(accessRequests, id, newAccessRequest)
        /\ notifications' =
              IF addFails THEN notifications
              ELSE CreateNotification(notifications, call.caller, call.owner,
                                      "access_request",
                                      Details(call.repo, "", NoTime, "", ""), now,
                                      notifyFails)
        /\ last' = IF addFails
                   THEN [Failure("requestRepositoryAccess", call.caller,
                                 "Failed to request repository access")
                            EXCEPT !.repo = call.repo]
                   ELSE [NoCall EXCEPT !.op = "requestRepositoryAccess",
                                       !.caller = call.caller, !.repo = call.repo,
                                       !.name = id]
        /\ UNCHANGED <<commitFailed, lastCommitTime, s3, repositories, pullRequests, now, ops>>

\* the store write of updateAccessRequest that throws, if any: 1 the status
\* update, 2 the update of the collaborators
AccessFailPoints == 0..2

\* updateAccessRequest: the caller is compared with the ownerId stored in the
\* request; the status is written first, then the collaborators
UpdateAccessRequest(u, requestId, approve, failAt, notifyFails) ==
    LET found == requestId \in DOMAIN accessRequests
        requestData == accessRequests[requestId]
        permitted == u # NoUser /\ found /\ requestData.ownerId = u
        status == IF approve THEN "approved" ELSE "denied"
        repoExists == requestData.repositoryId \in DOMAIN repositories
        statusWritten == permitted /\ failAt # 1
        collaborators == repositories[requestData.repositoryId].collaborators
        completed == statusWritten /\ (approve => (repoExists /\ failAt # 2))
        failed(err) == [Failure("updateAccessRequest", u, err)
                           EXCEPT !.name = requestId, !.approve = approve,
                                  !.failAt = failAt]
    IN  /\ accessRequests' =
              IF statusWritten
              THEN UpdateDoc(accessRequests, requestId,
                             [status |-> status, updatedAt |-> now])
              ELSE accessRequests
        /\ repositories' =
              IF completed /\ approve /\ requestData.requesterId \notin collaborators
              THEN UpdateDoc(repositories, requestData.repositoryId,
                             [collaborators |-> collaborators \cup {requestData.requesterId}])
              ELSE repositories
        /\ notifications' =
              IF completed
              THEN CreateNotification(notifications, u, requestData.requesterId,
                                      IF approve THEN "access_request_approved"
                                      ELSE "access_request_denied",
                                      Details(requestData.repositoryId, "", NoTime, "", ""),
                                      now, notifyFails)
              ELSE notifications
        /\ last' = IF u = NoUser THEN failed("User not authenticated")
                   ELSE IF ~found THEN failed("Access request not found")
                   ELSE IF requestData.ownerId # u
                   THEN failed("You do not have permission to update this access request")
                   ELSE IF failAt = 1 THEN failed("Failed to update access request")
                   ELSE IF approve /\ ~repoExists THEN failed("Repository not found")
                   ELSE IF approve /\ failAt = 2 THEN failed("Failed to update access request")
                   ELSE [NoCall EXCEPT !.op = "updateAccessRequest", !.caller = u,
                                       !.repo = requestData.repositoryId,
                                       !.name = requestId, !.approve = approve]
        /\ ops' = ops + 1
        /\ UNCHANGED <<commitFailed, lastCommitTime, s3, pullRequests, inflight, now>>

\* a signed-in user who never owns, joins or asks
Outsider == "carol"
AccessRepo == "r1"

\* the access-request specification starts after alice created the private
\* repository r1, as a fork or not, with carol as a collaborator or without
InitAccess ==
    /\ s3 = EmptyStore
    /\ \E collaborators \in {{}, {Outsider}}, forkedFrom \in {"", "r0"} :
          repositories = [id \in {AccessRepo} |->
                             RepositoryDoc("demo", "", "alice", 1, FALSE,
                                           collaborators, forkedFrom)]
    /\ pullRequests = EmptyStore
    /\ accessRequests = EmptyStore
    /\ inflight = {}
    /\ lastCommitTime = NoTime
    /\ commitFailed = FALSE
    /\ notifications = <<>>
    /\ now = 1
    /\ ops = 0
    /\ last = NoCall

\* the requests the notifications page offers: those of the collection
AccessRequestIds(reqs) == DOMAIN reqs

NextAccess ==
    \/ Tick
    \/ \E call \in inflight, af \in BOOLEAN, nf \in BOOLEAN :
          RequestAccessFinish(call, af, nf)
    \/ /\ ops < MaxAccessOps
       /\ \/ \E u \in Callers : RequestAccessBegin(u, AccessRepo)
          \/ \E u \in Callers, requestId \in AccessRequestIds(accessRequests),
                approve \in BOOLEAN :
                \E failAt \in (IF u = accessRequests[requestId].ownerId
                               THEN AccessFailPoints ELSE {0}),
                   nf \in BOOLEAN :
                UpdateAccessRequest(u, requestId, approve, failAt, nf)

SpecAccess == InitAccess /\ [][NextAccess]_vars

----------------------------------------------------------------------------
(* Fork with file copy: lib/s3Service.ts copyRepositoryFiles, called by
   executeFork of pages/RepositoryDetails.tsx with the id forkRepository
   returned *)

\* what goes wrong with one file: 0 nothing, 1 the download, 2 the upload
CopyFaults == 0..2

\* the loop of copyRepositoryFiles over files[i..]: the bucket, successCount
\* and errorFiles after it
RECURSIVE CopyLoop(_, _, _, _, _, _, _, _)
CopyLoop(store, cu, sourceRepoId, targetRepoId, files, i, faults, t) ==
    IF i > Len(files)
    THEN [store |-> store, successCount |-> 0, errorFiles |-> <<>>]
    ELSE LET file == files[i]
             downloadResult == DownloadFileFromS3(store, sourceRepoId, file.name,
                                                  faults[file.name] = 1)
             uploadResult == UploadFileToS3(store, cu, targetRepoId, file.name,
                                            downloadResult.content, file.contentType,
                                            t, faults[file.name] = 2)
             skipped(why) ==
                 LET rest == CopyLoop(store, cu, sourceRepoId, targetRepoId, files,
                                      i + 1, faults, t)
                 IN  [rest EXCEPT !.errorFiles = <<[name |-> file.name, why |-> why]>> \o @]
             copied ==
                 LET rest == CopyLoop(uploadResult.store, cu, sourceRepoId, targetRepoId,
                                      files, i + 1, faults, t)
                 IN  [rest EXCEPT !.successCount = @ + 1]
         IN  IF ~downloadResult.success \/ Falsy(downloadResult.content)
             THEN skipped("download failed")
             ELSE IF ~uploadResult.success
             THEN skipped("upload failed")
             ELSE copied

\* the error of the result, `Failed to copy ${errorFiles.length} files:
\* ${errorFiles.slice(0, 3).join(', ')}${errorFiles.length > 3 ? '...' : ''}`:
\* the number of failed files, the entries shown and whether '...' follows
CopyError(errorFiles) ==
    [count |-> Len(errorFiles),
     shown |-> SubSeq(errorFiles, 1, IF Len(errorFiles) > 3 THEN 3 ELSE Len(errorFiles)),
     more |-> Len(errorFiles) > 3]

\* copyRepositoryFiles
CopyRepositoryFiles(u, sourceRepoId, targetRepoId, listFails, faults) ==
    LET sourceFiles == ListRepositoryFiles(s3, sourceRepoId)
        loop == CopyLoop(s3, u, sourceRepoId, targetRepoId, sourceFiles, 1, faults, now)
        call == [NoCall EXCEPT !.op = "copyRepositoryFiles", !.caller = u,
                               !.repo = targetRepoId, !.name = sourceRepoId,
                               !.faults = faults, !.docFail = IF listFails THEN 1 ELSE 0]
    IN  /\ s3' = IF u = NoUser \/ listFails THEN s3 ELSE loop.store
        /\ last' = IF u = NoUser
                   THEN [call EXCEPT !.ok = FALSE, !.err = "User not authenticated"]
                   ELSE IF listFails
                   THEN [call EXCEPT !.err = "Source repository files error: Failed to list repository files"]
                   ELSE IF Len(sourceFiles) = 0 THEN call
                   ELSE [call EXCEPT !.filesCopied = loop.successCount,
                                     !.report = CopyError(loop.errorFiles)]
        /\ ops' = ops + 1
        /\ UNCHANGED <<commitFailed, lastCommitTime, docVars, accessRequests, inflight, now>>

ForkSource == "r0"

\* the fork specification starts after alice created repository r1 and
\* committed four files to it, of which a.txt and b.txt may have been emptied
InitFork ==
    /\ \E ca \in {"", "x"}, cb \in {"", "x"} :
          s3 = CommitWrites(CommitWrites(CommitWrites(CommitWrites(EmptyStore,
                   "alice", ForkSource, "a.txt", ca, UserMsg("update"), NoTime, 1, 0),
                   "alice", ForkSource, "b.txt", cb, UserMsg("update"), NoTime, 1, 0),
                   "alice", ForkSource, "c.txt", "x", UserMsg("update"), NoTime, 1, 0),
                   "alice", ForkSource, "d.txt", "y", UserMsg("update"), NoTime, 1, 0)
    /\ \E isPublic \in BOOLEAN, collaborators \in {{}, {"bob"}} :
          repositories = [id \in {ForkSource} |->
                             RepositoryDoc("demo", "about", "alice", 1, isPublic,
                                           collaborators, "")]
    /\ pullRequests = EmptyStore
    /\ accessRequests = EmptyStore
    /\ inflight = {}
    /\ lastCommitTime = NoTime
    /\ commitFailed = FALSE
    /\ notifications = <<>>
    /\ now = 1
    /\ ops = 0
    /\ last = NoCall

\* the forks of a repository
ForksOf(repos, sourceRepoId) == {id \in DOMAIN repos : repos[id].forkedFrom = sourceRepoId}

\* per-file faults of a copy; a refused copy meets none
FaultMaps(u) ==
    IF u = NoUser THEN {[f \in {"a.txt", "b.txt", "c.txt", "d.txt"} |-> 0]}
    ELSE [{"a.txt", "b.txt", "c.txt", "d.txt"} -> CopyFaults]

NextFork ==
    \/ Tick
    \/ /\ ops < MaxForkOps
       /\ \/ \E u \in Callers, newName \in {"", "mine"}, af \in BOOLEAN :
                ForkRepository(u, ForkSource, newName, af)
          \/ \E u \in Callers, target \in ForksOf(repositories, ForkSource) :
                \E lf \in (IF u = NoUser THEN {FALSE} ELSE BOOLEAN),
                   faults \in FaultMaps(u) :
                CopyRepositoryFiles(u, ForkSource, target, lf, faults)

SpecFork == InitFork /\ [][NextFork]_vars

----------------------------------------------------------------------------
(* Notifications, continued: lib/notificationService.ts.  A notification is
   identified by its place in the collection. *)

\* the collection without its i-th document
RemoveAt(notifs, i) ==
    [j \in 1..(Len(notifs) - 1) |-> IF j < i THEN notifs[j] ELSE notifs[j + 1]]

\* the recipient test of markNotificationAsRead and deleteNotification
BelongsToAnyone(notification, u) == TRUE
BelongsTo(notification, u) == notification.userId = u

\* what markNotificationAsRead and deleteNotification answer before they write
NotificationRefusal(notifs, u, notificationId) ==
    IF u = NoUser THEN "User not authenticated"
    ELSE IF notificationId \notin DOMAIN notifs THEN "Notification not found"
    ELSE IF ~BelongsTo(notifs[notificationId], u)
    THEN "Notification does not belong to this user"
    ELSE ""

\* createNotification called on its own
CreateNotificationCall(u, userId, type, addFails) ==
    /\ notifications' = CreateNotification(notifications, u, userId, type,
                                           Details("r1", "", NoTime, "", ""), now, addFails)
    /\ last' = IF u = NoUser THEN Failure("createNotification", u, "User not authenticated")
               ELSE IF addFails
               THEN Failure("createNotification", u, "Failed to create notification")
               ELSE [NoCall EXCEPT !.op = "createNotification", !.caller = u,
                                   !.notif = Len(notifications) + 1]
    /\ ops' = ops + 1
    /\ UNCHANGED <<commitFailed, lastCommitTime, s3, repositories, pullRequests, accessRequests, inflight, now>>

\* markNotificationAsRead
MarkNotificationAsRead(u, notificationId, updateFails) ==
    LET refusal == NotificationRefusal(notifications, u, notificationId)
        failed(err) == [Failure("markNotificationAsRead", u, err)
                           EXCEPT !.notif = notificationId]
    IN  /\ notifications' = IF refusal = "" /\ ~updateFails
                            THEN [notifications EXCEPT ![notificationId].read = TRUE]
                            ELSE notifications
        /\ last' = IF refusal # "" THEN failed(refusal)
                   ELSE IF updateFails THEN failed("Failed to update notification")
                   ELSE [NoCall EXCEPT !.op = "markNotificationAsRead", !.caller = u,
                                       !.notif = notificationId]
        /\ ops' = ops + 1
        /\ UNCHANGED <<commitFailed, lastCommitTime, s3, repositories, pullRequests, accessRequests, inflight, now>>

\* markAllNotificationsAsRead: one updateDoc per unread notification of the
\* caller, awaited together; those in failing throw, the others are written
MarkAllNotificationsAsRead(u, failing) ==
    LET unread == {i \in DOMAIN notifications :
                      notifications[i].userId = u /\ ~notifications[i].read}
    IN  /\ failing \subseteq unread
        /\ notifications' =
              IF u = NoUser THEN notifications
              ELSE [i \in DOMAIN notifications |->
                       IF i \in unread \ failing
                       THEN [notifications[i] EXCEPT !.read = TRUE]
                       ELSE notifications[i]]
        /\ last' = IF u = NoUser
                   THEN Failure("markAllNotificationsAsRead", u, "User not authenticated")
                   ELSE IF failing # {}
                   THEN Failure("markAllNotificationsAsRead", u, "Failed to update notifications")
                   ELSE [NoCall EXCEPT !.op = "markAllNotificationsAsRead", !.caller = u]
        /\ ops' = ops + 1
        /\ UNCHANGED <<commitFailed, lastCommitTime, s3, repositories, pullRequests, accessRequests, inflight, now>>

\* deleteNotification
DeleteNotification(u, notificationId, deleteFails) ==
    LET refusal == NotificationRefusal(notifications, u, notificationId)
        failed(err) == [Failure("deleteNotification", u, err)
                           EXCEPT !.notif = notificationId]
    IN  /\ notifications' = IF refusal = "" /\ ~deleteFails
                            THEN RemoveAt(notifications, notificationId)
                            ELSE notifications
        /\ last' = IF refusal # "" THEN failed(refusal)
                   ELSE IF deleteFails THEN failed("Failed to delete notification")
                   ELSE [NoCall EXCEPT !.op = "deleteNotification", !.caller = u,
                                       !.notif = notificationId]
        /\ ops' = ops + 1
        /\ UNCHANGED <<commitFailed, lastCommitTime, s3, repositories, pullRequests, accessRequests, inflight, now>>

\* the notification specification starts after bob asked for access to alice's
\* repository r1 and alice approved: one notification for each of them
InitNotif ==
    /\ s3 = EmptyStore
    /\ repositories = [id \in {"r1"} |->
                          RepositoryDoc("demo", "", "alice", 1, FALSE, {"bob"}, "")]
    /\ pullRequests = EmptyStore
    /\ accessRequests = [id \in {"r1"} |->
                            AccessRequestDoc("r1", "demo", "alice", "bob", "approved", 1)]
    /\ inflight = {}
    /\ lastCommitTime = NoTime
    /\ commitFailed = FALSE
    /\ notifications =
          CreateNotification(
              CreateNotification(<<>>, "bob", "alice", "access_request",
                                 Details("r1", "", NoTime, "", ""), 1, FALSE),
              "alice", "bob", "access_request_approved",
              Details("r1", "", NoTime, "", ""), 1, FALSE)
    /\ now = 1
    /\ ops = 0
    /\ last = NoCall

\* the ids the calls are made with: those of the collection and one of none
NotificationIds(notifs) == 1..(Len(notifs) + 1)

\* the faults of a call that reaches its write
NotificationFaults(u, notificationId) ==
    IF NotificationRefusal(notifications, u, notificationId) = "" THEN BOOLEAN ELSE {FALSE}

NextNotif ==
    \/ Tick
    \/ /\ ops < MaxNotifOps
       /\ \/ \E u \in Callers, userId \in Users :
                \E af \in (IF u = NoUser THEN {FALSE} ELSE BOOLEAN) :
                CreateNotificationCall(u, userId, "access_request", af)
          \/ \E u \in Callers, id \in NotificationIds(notifications) :
                \E uf \in NotificationFaults(u, id) : MarkNotificationAsRead(u, id, uf)
          \/ \E u \in Callers, failing \in SUBSET DOMAIN notifications :
                MarkAllNotificationsAsRead(u, failing)
          \/ \E u \in Callers, id \in NotificationIds(notifications) :
                \E df \in NotificationFaults(u, id) : DeleteNotification(u, id, df)

SpecNotif == InitNotif /\ [][NextNotif]_vars

----------------------------------------------------------------------------
(* The file editor: pages/FileEditor.tsx, one editor open on one file *)

EditorRepo == "r1"
EditorFile == "a.txt"
EditorUser == "alice"

\* loadFileFromS3 of the editor: lastCommitTime becomes the uploaded-at of the
\* current content when the download succeeds and the blob carries one
LoadFileFromS3(getFails) ==
    LET result == DownloadFileFromS3(s3, EditorRepo, EditorFile, getFails)
        uploadedAt == s3[FileKey(EditorRepo, EditorFile)].metadata.uploadedAt
    IN  /\ lastCommitTime' = IF result.success /\ uploadedAt # NoTime
                             THEN uploadedAt ELSE lastCommitTime
        /\ last' = IF result.success
                   THEN [NoCall EXCEPT !.op = "loadFileFromS3", !.caller = EditorUser,
                                       !.repo = EditorRepo, !.file = EditorFile]
                   ELSE [Failure("loadFileFromS3", EditorUser, "Failed to load file")
                            EXCEPT !.repo = EditorRepo, !.file = EditorFile]
        /\ ops' = ops + 1
        /\ UNCHANGED <<commitFailed, s3, docVars, accessRequests, inflight, now>>

\* handleCommit: commitFileVersion with previousVersionTimestamp the editor's
\* lastCommitTime; after a success lastCommitTime is the clock reading `after`
\* taken when the call has returned, and then the uploaded-at of the reloaded
\* file unless the reload fails
HandleCommit(fileContent, commitMessage, failAt, after, reloadFails) ==
    LET previousVersionTimestamp == lastCommitTime
        committed == CommitWrites(s3, EditorUser, EditorRepo, EditorFile, fileContent,
                                  commitMessage, previousVersionTimestamp, now, failAt)
    IN  /\ after \in now..MaxTime
        /\ failAt # 0 => after = now /\ ~reloadFails
        /\ s3' = committed
        /\ now' = after
        /\ lastCommitTime' =
              IF failAt # 0 THEN lastCommitTime
              ELSE IF reloadFails THEN after
              ELSE committed[FileKey(EditorRepo, EditorFile)].metadata.uploadedAt
        /\ last' = IF failAt # 0
                   THEN [Failure("handleCommit", EditorUser, "Failed to commit file version")
                            EXCEPT !.repo = EditorRepo, !.file = EditorFile,
                                   !.failAt = failAt]
                   ELSE [NoCall EXCEPT !.op = "handleCommit", !.caller = EditorUser,
                                       !.repo = EditorRepo, !.file = EditorFile,
                                       !.ts = now, !.content = fileContent,
                                       !.msg = commitMessage]
        /\ ops' = ops + 1
        /\ UNCHANGED <<commitFailed, docVars, accessRequests, inflight>>

\* the editor is opened on a file of alice's repository; the upload dialog of
\* the repository page writes the same file with uploadFileToS3
NextEditor ==
    \/ Tick
    \/ /\ ops < MaxEditorOps
       /\ \/ \E c \in Contents, pf \in BOOLEAN :
                UploadFile(EditorUser, EditorRepo, EditorFile, c, pf)
          \/ \E gf \in BOOLEAN : LoadFileFromS3(gf)
          \/ \E c \in Contents, text \in CommitTexts, failAt \in FailPoints,
                after \in Times, rf \in BOOLEAN :
                HandleCommit(c, UserMsg(text), failAt, after, rf)

SpecEditor == Init /\ [][NextEditor]_vars

----------------------------------------------------------------------------
(* commitFileVersion taken one awaited step at a time, so that the calls of
   concurrent callers interleave *)

CommitRepo == "r1"
CommitFile == "a.txt"

\* a commitFileVersion that has read the clock and awaits its write number phase
CommitCall(id, caller, content, message, ts, phase) ==
    [id |-> id, op |-> "commitFileVersion", caller |-> caller, content |-> content,
     message |-> message, ts |-> ts, phase |-> phase]

\* commitFileVersion up to `const timestamp = new Date().toISOString()`
CommitBegin(u, fileContent, commitMessage) ==
    /\ inflight' = IF u = NoUser THEN inflight
                   ELSE inflight \cup {CommitCall(ops + 1, u, fileContent, commitMessage,
                                                  now, 1)}
    /\ last' = IF u = NoUser THEN Failure("commitFileVersion", u, "User not authenticated")
               ELSE [NoCall EXCEPT !.op = "commitFileVersion", !.caller = u,
                                   !.repo = CommitRepo, !.file = CommitFile,
                                   !.ts = now, !.content = fileContent,
                                   !.msg = commitMessage, !.awaiting = TRUE]
    /\ ops' = ops + 1
    /\ UNCHANGED <<s3, docVars, accessRequests, lastCommitTime, commitFailed, now>>

\* one awaited PutObjectCommand of commitFileVersion: 1 the current content,
\* 2 the history snapshot, 3 the commit metadata, each under the timestamp
\* read at the start and with the time of the write as LastModified
CommitStep(call, putFails) ==
    LET u == call.caller
        written ==
            CASE call.phase = 1 ->
                   PutObject(s3, FileKey(CommitRepo, CommitFile), call.content, "text/plain",
                             Metadata(u, Email(u), call.ts, CommitFile, NoMsg, NoTime, NoTime),
                             now)
              [] call.phase = 2 ->
                   PutObject(s3, HistoryKey(CommitRepo, CommitFile, call.ts), call.content,
                             "text/plain",
                             HistoryMetadata(u, call.message, call.ts, NoTime), now)
              [] OTHER ->
                   PutObject(s3, CommitKey(CommitRepo, CommitFile, call.ts),
                             CommitData(call.message, call.ts, AuthorOf(u), NoTime),
                             "application/json", NoMetadata, now)
        result == [NoCall EXCEPT !.op = "commitFileVersion", !.caller = u,
                                 !.repo = CommitRepo, !.file = CommitFile,
                                 !.ts = call.ts, !.content = call.content,
                                 !.msg = call.message]
    IN  /\ call \in inflight
        /\ s3' = IF putFails THEN s3 ELSE written
        /\ inflight' = IF putFails \/ call.phase = 3
                       THEN inflight \ {call}
                       ELSE (inflight \ {call}) \cup {[call EXCEPT !.phase = @ + 1]}
        /\ commitFailed' = (commitFailed \/ putFails)
        /\ last' = IF putFails
                   THEN [result EXCEPT !.ok = FALSE, !.err = "Failed to commit file version",
                                       !.failAt = call.phase]
                   ELSE IF call.phase = 3 THEN result
                   ELSE [result EXCEPT !.awaiting = TRUE, !.failAt = call.phase]
        /\ UNCHANGED <<docVars, accessRequests, lastCommitTime, now, ops>>

\* what the two editors commit
CommitContents == {"x", "y"}

NextCommit ==
    \/ Tick
    \/ \E call \in inflight, pf \in BOOLEAN : CommitStep(call, pf)
    \/ /\ ops < MaxCommitOps
       /\ \E u \in Callers, c \in CommitContents : CommitBegin(u, c, UserMsg("update"))

SpecCommit == Init /\ [][NextCommit]_vars

----------------------------------------------------------------------------
(* mergePullRequest taken in two parts, so that the calls of concurrent
   sessions of the owner interleave *)

\* a mergePullRequest that has read the pull request, found the caller to be
\* the target owner and the status open, and awaits the rest of its work
MergeCall(id, caller, pullRequestId, pullRequest, comment) ==
    [id |-> id, op |-> "mergePullRequest", caller |-> caller, pr |-> pullRequestId,
     pullRequest |-> pullRequest, comment |-> comment]

\* mergePullRequest up to its two checks on the document it read
MergeBegin(u, pullRequestId, comment) ==
    LET res == GetPullRequest(pullRequests, pullRequestId)
        pullRequest == res.pullRequest
        allowed == /\ u # NoUser /\ res.success
                   /\ IsTargetOwner(pullRequest, u) /\ IsOpen(pullRequest)
        failed(err) == [Failure("mergePullRequest", u, err) EXCEPT !.pr = pullRequestId]
    IN  /\ inflight' = IF allowed
                       THEN inflight \cup {MergeCall(ops + 1, u, pullRequestId,
                                                     pullRequest, comment)}
                       ELSE inflight
        /\ last' = IF u = NoUser THEN failed("User not authenticated")
                   ELSE IF ~res.success THEN failed(res.error)
                   ELSE IF ~IsTargetOwner(pullRequest, u)
                   THEN failed("Only the repository owner can merge this pull request")
                   ELSE IF ~IsOpen(pullRequest)
                   THEN failed(AlreadyError(pullRequest.status))
                   ELSE [NoCall EXCEPT !.op = "mergePullRequest", !.caller = u,
                                       !.pr = pullRequestId, !.awaiting = TRUE]
        /\ ops' = ops + 1
        /\ UNCHANGED <<s3, docVars, accessRequests, lastCommitTime, commitFailed, now>>

\* the rest of mergePullRequest: the changed files, the copy loop and the
\* call of updatePullRequestStatus, which reads the pull request again
MergeFinish(call, failFile, failAt, listFails, docFail) ==
    LET u == call.caller
        pullRequest == call.pullRequest
        changedFilesResult == GetChangedFiles(s3, u, pullRequest.sourceRepoId,
                                              pullRequest.targetRepoId, listFails)
        computed == Len(pullRequest.changedFiles) = 0
        changedFiles == IF computed THEN changedFilesResult.files
                        ELSE pullRequest.changedFiles
        merging == computed => changedFilesResult.success
        statusResult == UpdateStatus(pullRequests, notifications, u, call.pr,
                                     "merged", call.comment, now, docFail)
    IN  /\ call \in inflight
        /\ inflight' = inflight \ {call}
        /\ s3' = IF merging
                 THEN MergeFiles(s3, u, call.pr, pullRequest, changedFiles, now,
                                 failFile, failAt)
                 ELSE s3
        /\ pullRequests' = IF merging THEN statusResult.prs ELSE pullRequests
        /\ notifications' = IF merging THEN statusResult.notifs ELSE notifications
        /\ last' = IF ~merging
                   THEN [Failure("mergePullRequest", u, changedFilesResult.error)
                            EXCEPT !.pr = call.pr]
                   ELSE [NoCall EXCEPT !.op = "mergePullRequest", !.caller = u,
                                       !.pr = call.pr, !.status = "merged",
                                       !.failFile = failFile, !.failAt = failAt,
                                       !.docFail = docFail]
        /\ UNCHANGED <<repositories, accessRequests, lastCommitTime, commitFailed, now, ops>>

NextMerge ==
    \/ Tick
    \/ \E call \in inflight, failAt \in MergeFailPoints, df \in DocFailPoints :
          \E lf \in (IF Len(call.pullRequest.changedFiles) = 0 THEN BOOLEAN ELSE {FALSE}),
             failFile \in (IF failAt = 0 THEN {""} ELSE FileNames) :
          MergeFinish(call, failFile, failAt, lf, df)
    \/ /\ ops < MaxMergeOps
       /\ \/ \E files \in ChangedFileLists :
                /\ Cardinality(DOMAIN pullRequests) < MaxPullRequests
                /\ CreatePullRequest("bob", PRTitle, SourceRepo, TargetRepo,
                                     repositories[TargetRepo].ownerId, files, FALSE, 0)
          \/ \E u \in Callers, id \in PullRequestIds(pullRequests) :
                MergeBegin(u, id, ReviewComment)

SpecMerge == InitPR /\ [][NextMerge]_vars

----------------------------------------------------------------------------
(* Claims on the versioned file store *)

\* the entries of listFileCommits, as a set
HistoryEntries(store, repoId, fileName) ==
    LET listed == ListFileCommits(store, repoId, fileName)
    IN  {listed[i] : i \in DOMAIN listed}

\* the message contains "Restored"
ContainsRestored(msg) == msg.text \in {"Restored previous version", "Restored version"}

\* the message names the instant t
RefersTo(msg, t) == \E i \in DOMAIN msg.refs : msg.refs[i] = ToLocaleString(t)

\* C1: after a successful commit of bytes B with message M that returned timestamp
\* T, list-history of the file holds an entry with timestamp T and message M, and
\* get-version(F, T) returns exactly B.
C1_CommitReadBack ==
    (last.op = "commitFileVersion" /\ last.ok) =>
        /\ \E e \in HistoryEntries(s3, last.repo, last.file) :
              e.timestamp = last.ts /\ e.commitMessage = last.msg
        /\ GetFileVersion(s3, last.repo, last.file, last.ts, FALSE).success
        /\ GetFileVersion(s3, last.repo, last.file, last.ts, FALSE).content = last.content

\* a commit has just succeeded on a file that already had an older history entry
\* with other bytes
C1_Witness ==
    /\ last.op = "commitFileVersion" /\ last.ok
    /\ \E e \in HistoryEntries(s3, last.repo, last.file) :
          e.timestamp < last.ts /\ s3[e.key].body # last.content

\* C2 (as claimed): a successful restore(F, T) creates a new history entry with the
\* bytes of entry T and a message that contains "Restored" and refers to T, makes
\* the current content equal to those bytes, and leaves the entry at T as it was.
C2_RestoreAddsEntryKeepsOld ==
    [][(last'.op = "restoreFileVersion" /\ last'.ok) =>
          LET r == last'.repo
              f == last'.file
              old == s3[HistoryKey(r, f, last'.ts)]
          IN  /\ \E k \in ListObjects(s3', "history", r, f) \ DOMAIN s3 :
                    /\ s3'[k].body = old.body
                    /\ ContainsRestored(s3'[k].metadata.commitMessage)
                    /\ RefersTo(s3'[k].metadata.commitMessage, last'.ts)
              /\ s3'[FileKey(r, f)].body = old.body
              /\ HistoryKey(r, f, last'.ts) \in DOMAIN s3'
              /\ s3'[HistoryKey(r, f, last'.ts)] = old]_vars

\* C3 (as claimed): a history snapshot, once written, keeps its bytes and its
\* metadata through every later call, whatever timestamp that call obtains.
C3_HistoryNeverChanges ==
    [][\A k \in DOMAIN s3 :
          k.folder = "history" => (k \in DOMAIN s3' /\ s3'[k] = s3[k])]_vars


----------------------------------------------------------------------------
(* Claims on the pending-commit approval flow *)

\* the blobs that make up a file's committed state: current content, history
\* snapshots and commit metadata
Committed(store) ==
    [k \in {j \in DOMAIN store : j.folder \in {"files", "history", "commits"}} |-> store[k]]

\* the pending-metadata blobs
PendingMeta(store) ==
    [k \in {j \in DOMAIN store : j.folder = "pending-meta"} |-> store[k]]

\* C7 (as claimed): under approve and reject calls the status in a pending
\* change's metadata moves only from pending to approved or from pending to
\* rejected; once it is approved or rejected no such call changes it again.
C7_PendingStatusOnlyFromPending ==
    [][last'.op = "processPendingCommit" =>
          \A k \in DOMAIN PendingMeta(s3) :
              s3[k].body.status # "pending" =>
                  /\ k \in DOMAIN s3'
                  /\ s3'[k].body.status = s3[k].body.status]_vars

\* C8 (as claimed): when the owner's approval of a pending change that another
\* user submitted succeeds, the file's current content is the submitted bytes,
\* a new history entry exists whose commit metadata names the submitter, not
\* the approver, as author, and the pending metadata's processedBy names the
\* approver.  Calls in which a write to the bucket throws are left aside.
C8_ApprovalAttributesAuthor ==
    [][(/\ last'.op = "processPendingCommit" /\ last'.ok /\ last'.approve
        /\ last'.failAt = 0
        /\ s3[PendingMetaKey(last'.repo, last'.file, last'.ts)].body.authorId
              # last'.caller) =>
          LET r == last'.repo
              f == last'.file
              submitted == s3[PendingKey(r, f, last'.ts)].body
              request == s3[PendingMetaKey(r, f, last'.ts)].body
          IN  /\ FileKey(r, f) \in DOMAIN s3'
              /\ s3'[FileKey(r, f)].body = submitted
              /\ \E k \in ListObjects(s3', "commits", r, f) :
                    /\ HistoryKey(r, f, TimestampOfKey(k)) \in DOMAIN s3'
                    /\ s3'[HistoryKey(r, f, TimestampOfKey(k))].body = submitted
                    /\ s3'[k].body.author = request.author
                    /\ s3'[k].body.author # AuthorOf(last'.caller)
              /\ s3'[PendingMetaKey(r, f, last'.ts)].body.processedBy
                    = AuthorOf(last'.caller)]_vars

\* C9: processPendingCommit succeeds only for the caller that the repository
\* document names as owner at the time of the call; a call by anyone else fails
\* and leaves the pending metadata, the current content and the history as
\* they were, whoever owned the repository before.
C9_OnlyCurrentOwnerProcesses ==
    [][(last'.op = "processPendingCommit" /\ last'.repo \in DOMAIN repositories) =>
          /\ last'.ok => repositories[last'.repo].ownerId = last'.caller
          /\ repositories[last'.repo].ownerId # last'.caller =>
                /\ ~last'.ok
                /\ PendingMeta(s3') = PendingMeta(s3)
                /\ Committed(s3') = Committed(s3)]_vars

\* the first owner, alice, has handed the repository to bob and her call on an
\* existing request has just been refused
C9_Witness ==
    /\ last.op = "processPendingCommit" /\ ~last.ok
    /\ last.caller = "alice"
    /\ last.err = "Only the repository owner can approve commit requests"
    /\ repositories[last.repo].ownerId = "bob"
    /\ PendingMetaKey(last.repo, last.file, last.ts) \in DOMAIN s3

\* C10: createPendingCommit and a rejecting processPendingCommit leave the
\* current content, the history snapshots and the commit metadata as they
\* were; of the pending-flow calls only an approval changes them.
C10_PendingLeavesCommittedAlone ==
    [][/\ (\/ last'.op = "createPendingCommit"
           \/ (last'.op = "processPendingCommit" /\ ~last'.approve)) =>
              Committed(s3') = Committed(s3)
       /\ Committed(s3') # Committed(s3) =>
              \/ last'.op = "processPendingCommit" /\ last'.approve
              \/ last'.op = "commitFileVersion"]_vars

\* a request has just been rejected while the file's current content differs
\* from the submitted bytes
C10_Witness ==
    /\ last.op = "processPendingCommit" /\ last.ok /\ ~last.approve
    /\ FileKey(last.repo, last.file) \in DOMAIN s3
    /\ PendingKey(last.repo, last.file, last.ts) \in DOMAIN s3
    /\ s3[PendingMetaKey(last.repo, last.file, last.ts)].body.status = "rejected"
    /\ s3[FileKey(last.repo, last.file)].body
          # s3[PendingKey(last.repo, last.file, last.ts)].body


----------------------------------------------------------------------------
(* Claims on pull requests *)

\* the notifications added by the step
AddedNotifications ==
    {notifications'[i] : i \in (DOMAIN notifications') \ (DOMAIN notifications)}

\* C4 (as claimed): a successful merge by the target owner of an open pull
\* request whose changed files are a.txt and b.txt, both present in the source,
\* leaves the target's current content of each file equal to the source's,
\* except for a file whose copy met a fault, sets the status to merged and adds
\* a notification for the creator.  Calls in which the document store throws
\* are left aside.
C4_MergeCopiesChangedFiles ==
    [][(/\ last'.op = "mergePullRequest" /\ last'.ok /\ last'.docFail = 0
        /\ pullRequests[last'.pr].changedFiles = <<"a.txt", "b.txt">>
        /\ \A f \in FileNames :
              FileKey(pullRequests[last'.pr].sourceRepoId, f) \in DOMAIN s3) =>
          LET pullRequest == pullRequests[last'.pr]
              S == pullRequest.sourceRepoId
              T == pullRequest.targetRepoId
          IN  /\ \A f \in FileNames :
                    (last'.failAt = 0 \/ f # last'.failFile) =>
                        /\ FileKey(T, f) \in DOMAIN s3'
                        /\ s3'[FileKey(T, f)].body = s3[FileKey(S, f)].body
              /\ pullRequests'[last'.pr].status = "merged"
              /\ \E n \in AddedNotifications :
                    /\ n.userId = pullRequest.createdBy
                    /\ n.details.pullRequestId = last'.pr]_vars

\* C5 (as claimed): the stored status of a pull request changes only while it
\* is open; once merged, rejected or closed it keeps that status.
C5_StatusOnlyFromOpen ==
    [][\A id \in DOMAIN pullRequests :
          pullRequests[id].status # "open" =>
              /\ id \in DOMAIN pullRequests'
              /\ pullRequests'[id].status = pullRequests[id].status]_vars

\* C6: mergePullRequest called by anyone but the pull request's target owner, or
\* on a pull request that is not open, returns a failure and leaves the pull
\* requests, the bucket and the notifications as they were.
C6_RefusedMergeChangesNothing ==
    [][(/\ last'.op = "mergePullRequest"
        /\ last'.pr \in DOMAIN pullRequests
        /\ \/ pullRequests[last'.pr].targetOwnerId # last'.caller
           \/ pullRequests[last'.pr].status # "open") =>
          /\ ~last'.ok
          /\ pullRequests' = pullRequests
          /\ s3' = s3
          /\ notifications' = notifications]_vars

\* the target owner's merge of an already merged pull request, whose changed
\* files exist in the source, has just been refused
C6_Witness ==
    /\ last.op = "mergePullRequest" /\ ~last.ok
    /\ last.err = "This pull request is already merged"
    /\ last.pr \in DOMAIN pullRequests
    /\ pullRequests[last.pr].targetOwnerId = last.caller
    /\ pullRequests[last.pr].status = "merged"
    /\ Len(pullRequests[last.pr].changedFiles) = 2


----------------------------------------------------------------------------
(* Claims on the repository registry *)

\* C11 (as claimed): no two repository documents have both the same owner and
\* the same name.
C11_NameUniquePerOwner ==
    \A r1 \in DOMAIN repositories, r2 \in DOMAIN repositories :
        (/\ repositories[r1].ownerId = repositories[r2].ownerId
         /\ repositories[r1].name = repositories[r2].name) => r1 = r2

\* C12: a createRepository(N, ...) that user U makes while owning a repository
\* named N fails with the duplicate-name error and adds no repository
\* document, whatever description and visibility it passes.
C12_DuplicateNameRefused ==
    [][(/\ ops' = ops + 1 /\ last'.op = "createRepository"
        /\ \E r \in DOMAIN repositories :
              /\ repositories[r].ownerId = last'.caller
              /\ repositories[r].name = last'.name) =>
          /\ ~last'.ok
          /\ last'.err = "A repository with this name already exists"
          /\ repositories' = repositories
          /\ inflight' = inflight]_vars

\* a create has just been refused for a name the caller owns, with another
\* description and the other visibility than the existing repository has
C12_Witness ==
    /\ last.op = "createRepository" /\ ~last.ok
    /\ last.err = "A repository with this name already exists"
    /\ \E r \in DOMAIN repositories :
          /\ repositories[r].ownerId = last.caller
          /\ repositories[r].name = last.name
          /\ repositories[r].description # last.description
          /\ repositories[r].isPublic # last.isPublic

----------------------------------------------------------------------------
(* Claims on repository access *)

\* the signed-in users getRepository can be called by
SignedIn == Users \cup {Outsider}

C14_RequestThenApprove ==
    [][/\ (/\ ops' = ops + 1 /\ last'.op = "requestRepositoryAccess"
           /\ \E q \in DOMAIN accessRequests :
                 /\ accessRequests[q].repositoryId = last'.repo
                 /\ accessRequests[q].requesterId = last'.caller
                 /\ accessRequests[q].status = "pending") =>
             /\ ~last'.ok
             /\ last'.err = "You already have a pending access request for this repository"
             /\ accessRequests' = accessRequests
             /\ inflight' = inflight
       /\ (/\ ops' = ops + 1 /\ last'.op = "updateAccessRequest"
           /\ last'.ok /\ last'.approve) =>
             LET q == accessRequests[last'.name]
                 res == GetRepository(repositories', q.requesterId, q.repositoryId)
             IN  /\ q.requesterId \in repositories'[q.repositoryId].collaborators
                 /\ res.success
                 /\ res.repository = repositories'[q.repositoryId]]_vars

\* C15 (as claimed): for every repository and requester at most one
\* accessRequest document is pending, also when calls are interleaved.
C15_OnePendingPerRequester ==
    \A q1 \in DOMAIN accessRequests, q2 \in DOMAIN accessRequests :
        (/\ accessRequests[q1].repositoryId = accessRequests[q2].repositoryId
         /\ accessRequests[q1].requesterId = accessRequests[q2].requesterId
         /\ accessRequests[q1].status = "pending"
         /\ accessRequests[q2].status = "pending") => q1 = q2

----------------------------------------------------------------------------
(* Claims on fork and file copy *)

\* C16 (as claimed): a forkRepository that succeeds was made on a source that
\* is public or by its owner or a collaborator; with no name given the new
\* document is named {source.name}-fork; it is owned by the caller, private,
\* without collaborators, with forkedFrom the source id; and after a copy that
\* met no fault every current file of the source is in the fork with the same
\* bytes.
C16_ForkCopiesEverything ==
    [][/\ (/\ ops' = ops + 1 /\ last'.op = "forkRepository" /\ last'.ok) =>
             LET fork == repositories'[last'.repo]
                 sourceRepo == repositories[fork.forkedFrom]
             IN  /\ last'.repo \notin DOMAIN repositories
                 /\ fork.forkedFrom = ForkSource
                 /\ \/ sourceRepo.isPublic
                    \/ sourceRepo.ownerId = last'.caller
                    \/ last'.caller \in sourceRepo.collaborators
                 /\ last'.name = "" => fork.name = sourceRepo.name \o "-fork"
                 /\ fork.ownerId = last'.caller
                 /\ ~fork.isPublic
                 /\ fork.collaborators = {}
       /\ (/\ ops' = ops + 1 /\ last'.op = "copyRepositoryFiles" /\ last'.ok
           /\ last'.docFail = 0
           /\ \A f \in DOMAIN last'.faults : last'.faults[f] = 0) =>
             \A f \in DOMAIN last'.faults :
                 FileKey(last'.name, f) \in DOMAIN s3 =>
                    /\ FileKey(last'.repo, f) \in DOMAIN s3'
                    /\ s3'[FileKey(last'.repo, f)].body = s3[FileKey(last'.name, f)].body]_vars

\* C17 (as claimed): a copyRepositoryFiles by a signed-in caller whose listing
\* succeeded returns success whatever files fail; filesCopied is the number of
\* source files that were downloaded and uploaded; each of those is in the
\* target with the source's bytes; each other file is left alone in the target
\* and is reported in the result; no repository document changes.
C17_PartialCopyReported ==
    [][(/\ ops' = ops + 1 /\ last'.op = "copyRepositoryFiles"
        /\ last'.caller # NoUser /\ last'.docFail = 0) =>
          LET sourceRepoId == last'.name
              targetRepoId == last'.repo
              present == {f \in DOMAIN last'.faults : FileKey(sourceRepoId, f) \in DOMAIN s3}
              good == {f \in present : /\ last'.faults[f] = 0
                                       /\ ~Falsy(s3[FileKey(sourceRepoId, f)].body)}
          IN  /\ last'.ok
              /\ last'.filesCopied = Cardinality(good)
              /\ \A f \in good :
                    /\ FileKey(targetRepoId, f) \in DOMAIN s3'
                    /\ s3'[FileKey(targetRepoId, f)].body = s3[FileKey(sourceRepoId, f)].body
              /\ \A f \in present \ good :
                    /\ FileKey(targetRepoId, f) \in DOMAIN s3' <=>
                          FileKey(targetRepoId, f) \in DOMAIN s3
                    /\ FileKey(targetRepoId, f) \in DOMAIN s3 =>
                          s3'[FileKey(targetRepoId, f)] = s3[FileKey(targetRepoId, f)]
                    /\ \E i \in DOMAIN last'.report.shown : last'.report.shown[i].name = f
              /\ repositories' = repositories]_vars

----------------------------------------------------------------------------
(* Claims across the services *)

\* C18 (as claimed): a mutating call made while nobody is signed in fails with
\* the not-authenticated error and leaves the document store and the blob
\* store unchanged.
C18_UnauthenticatedRefused ==
    [][(/\ ops' = ops + 1 /\ last'.caller = NoUser) =>
          /\ ~last'.ok
          /\ last'.err = "User not authenticated"
          /\ s3' = s3
          /\ repositories' = repositories
          /\ pullRequests' = pullRequests
          /\ accessRequests' = accessRequests
          /\ notifications' = notifications]_vars

\* C19 (as claimed): getChangedFiles(source, target) returns exactly the names
\* of the source's current files that are absent from the target or whose
\* last-modified time differs from that of the target's file of the same name.
C19_ChangedFilesExact ==
    \A u \in Users :
        LET res == GetChangedFiles(s3, u, SourceRepo, TargetRepo, FALSE)
            returned == {res.files[i] : i \in DOMAIN res.files}
            expected ==
                {f \in {FileOrder[i] : i \in DOMAIN FileOrder} :
                    /\ FileKey(SourceRepo, f) \in DOMAIN s3
                    /\ \/ FileKey(TargetRepo, f) \notin DOMAIN s3
                       \/ s3[FileKey(SourceRepo, f)].lastModified #
                             s3[FileKey(TargetRepo, f)].lastModified}
        IN  /\ res.success
            /\ returned = expected
            /\ Len(res.files) = Cardinality(returned)

\* C20: an updatePullRequestStatus to rejected succeeds only for the target
\* owner; one to closed succeeds for the target owner and for the creator
\* when the store accepts the writes; a reject or close changes nothing but
\* the status and updatedAt of that pull request, writes no blob and no
\* repository document, and when it succeeds appends exactly one notification,
\* addressed to the creator.
C20_RejectCloseStatusOnly ==
    [][(/\ ops' = ops + 1 /\ last'.op = "updatePullRequestStatus"
        /\ last'.pr \in DOMAIN pullRequests) =>
          LET pullRequest == pullRequests[last'.pr]
              after == pullRequests'[last'.pr]
          IN  /\ (last'.status = "rejected" /\ last'.ok) =>
                    last'.caller = pullRequest.targetOwnerId
              /\ (/\ last'.status = "closed" /\ last'.docFail = 0
                  /\ last'.caller \in {pullRequest.targetOwnerId, pullRequest.createdBy}) =>
                    last'.ok
              /\ s3' = s3
              /\ repositories' = repositories
              /\ DOMAIN pullRequests' = DOMAIN pullRequests
              /\ \A id \in DOMAIN pullRequests \ {last'.pr} :
                    pullRequests'[id] = pullRequests[id]
              /\ after = [pullRequest EXCEPT !.status = after.status,
                                             !.updatedAt = after.updatedAt]
              /\ last'.ok =>
                    /\ after.status = last'.status
                    /\ after.updatedAt = now
                    /\ Len(notifications') = Len(notifications) + 1
                    /\ SubSeq(notifications', 1, Len(notifications)) = notifications
                    /\ notifications'[Len(notifications')].userId = pullRequest.createdBy
              /\ ~last'.ok => notifications' = notifications]_vars

\* the creator, who does not own the target, has just closed the pull request
\* and been notified
C20_Witness ==
    /\ last.op = "updatePullRequestStatus" /\ last.ok /\ last.status = "closed"
    /\ last.pr \in DOMAIN pullRequests
    /\ pullRequests[last.pr].status = "closed"
    /\ last.caller = pullRequests[last.pr].createdBy
    /\ last.caller # pullRequests[last.pr].targetOwnerId
    /\ Len(notifications) > 0
    /\ notifications[Len(notifications)].userId = last.caller

----------------------------------------------------------------------------
(* Claims on ownership, notifications and commits *)

\* C21: an updateRepository or deleteRepository by a caller who is not the
\* owner of the repository, a collaborator included, fails and leaves the
\* repository documents unchanged; a successful updateRepository leaves the
\* time of the call in updatedAt.
C21_OwnerOnlyUpdateDelete ==
    [][(/\ ops' = ops + 1 /\ last'.op \in {"updateRepository", "deleteRepository"}
        /\ last'.repo \in DOMAIN repositories) =>
          /\ last'.caller # repositories[last'.repo].ownerId =>
                /\ ~last'.ok
                /\ repositories' = repositories
          /\ (last'.op = "updateRepository" /\ last'.ok) =>
                /\ last'.repo \in DOMAIN repositories'
                /\ repositories'[last'.repo].updatedAt = now]_vars

\* a collaborator has just been refused an update of a repository whose owner
\* had updated it at a later time than it was created
C21_Witness ==
    /\ last.op = "updateRepository" /\ ~last.ok
    /\ last.err = "Only the owner can update this repository"
    /\ last.repo \in DOMAIN repositories
    /\ last.caller \in repositories[last.repo].collaborators
    /\ repositories[last.repo].updatedAt > repositories[last.repo].createdAt

\* C22: in every step each notification either stays as it is, or has its
\* read flag turned from unread to read by a mark-read or mark-all-read of its
\* recipient, or is removed by a deleteNotification of its recipient; its
\* recipient, type, message and details never change; and a mark-read or
\* delete aimed at another user's notification fails and changes nothing.
C22_NotificationsImmutable ==
    [][LET old == notifications
           new == notifications'
           marked(i) ==
               /\ ~old[i].read
               /\ new[i] = [old[i] EXCEPT !.read = TRUE]
               /\ last'.op \in {"markNotificationAsRead", "markAllNotificationsAsRead"}
               /\ last'.caller = old[i].userId
       IN  /\ \/ /\ Len(new) >= Len(old)
                 /\ \A i \in DOMAIN old : new[i] = old[i] \/ marked(i)
              \/ \E i \in DOMAIN old :
                    /\ new = RemoveAt(old, i)
                    /\ last'.op = "deleteNotification"
                    /\ last'.caller = old[i].userId
           /\ (/\ ops' = ops + 1
               /\ last'.op \in {"markNotificationAsRead", "deleteNotification"}
               /\ last'.notif \in DOMAIN old
               /\ last'.caller # old[last'.notif].userId) =>
                 (~last'.ok /\ new = old)]_vars

\* bob has just been refused the deletion of alice's notification, which she
\* had marked read
C22_Witness ==
    /\ last.op = "deleteNotification" /\ ~last.ok
    /\ last.err = "Notification does not belong to this user"
    /\ last.notif \in DOMAIN notifications
    /\ notifications[last.notif].userId # last.caller
    /\ last.caller # NoUser
    /\ notifications[last.notif].read

\* C23: a commitFileVersion by a signed-in caller writes, in this order and
\* under the one timestamp it returns, the current content, the history
\* snapshot and the commit metadata; when a write fails the call fails, the
\* writes after it are not made and the writes before it stay: after a failed
\* history write the current content is overwritten and no history entry has
\* been written for it.
C23_CommitWritesInOrder ==
    [][(/\ ops' = ops + 1 /\ last'.op = "commitFileVersion" /\ last'.caller # NoUser) =>
          LET fileKey == FileKey(last'.repo, last'.file)
              historyKey == HistoryKey(last'.repo, last'.file, now)
              commitKey == CommitKey(last'.repo, last'.file, now)
              untouched(keys) ==
                  \A k \in (DOMAIN s3 \cup DOMAIN s3') \ keys :
                      k \in DOMAIN s3 /\ k \in DOMAIN s3' /\ s3'[k] = s3[k]
              currentWritten ==
                  /\ fileKey \in DOMAIN s3'
                  /\ s3'[fileKey].lastModified = now
                  /\ s3'[fileKey].metadata.uploadedAt = now
                  /\ s3'[fileKey].metadata.userId = last'.caller
              historyWritten ==
                  /\ historyKey \in DOMAIN s3'
                  /\ s3'[historyKey].body = s3'[fileKey].body
                  /\ s3'[historyKey].metadata.timestamp = now
                  /\ s3'[historyKey].metadata.userId = last'.caller
              commitWritten ==
                  /\ commitKey \in DOMAIN s3'
                  /\ s3'[commitKey].body.timestamp = now
          IN  /\ last'.ok <=> last'.failAt = 0
              /\ last'.failAt = 0 =>
                    /\ last'.ts = now
                    /\ s3'[fileKey].body = last'.content
                    /\ currentWritten /\ historyWritten /\ commitWritten
                    /\ untouched({fileKey, historyKey, commitKey})
              /\ last'.failAt = 1 => s3' = s3
              /\ last'.failAt = 2 =>
                    /\ currentWritten
                    /\ untouched({fileKey})
              /\ last'.failAt = 3 =>
                    /\ currentWritten /\ historyWritten
                    /\ untouched({fileKey, historyKey})]_vars

\* a commit has just failed at its history write on a file that had a history
\* entry: the current content is new and has no entry at its time
C23_Witness ==
    /\ last.op = "commitFileVersion" /\ ~last.ok /\ last.failAt = 2
    /\ FileKey(last.repo, last.file) \in DOMAIN s3
    /\ s3[FileKey(last.repo, last.file)].lastModified = now
    /\ HistoryKey(last.repo, last.file, now) \notin DOMAIN s3
    /\ \E k \in ListObjects(s3, "history", last.repo, last.file) :
          s3[k].body # s3[FileKey(last.repo, last.file)].body

\* C24 (as claimed): a history entry that the editor's commit adds under a
\* timestamp not used before has a previous-version pointer that is empty or
\* is the timestamp of a history entry the file already had, the latest one.
C24_PreviousVersionPointsBack ==
    [][(/\ ops' = ops + 1 /\ last'.op = "handleCommit" /\ last'.ok
        /\ HistoryKey(last'.repo, last'.file, last'.ts) \notin DOMAIN s3) =>
          LET entries == ListObjects(s3, "history", last'.repo, last'.file)
              previous == s3'[HistoryKey(last'.repo, last'.file, last'.ts)]
                             .metadata.previousVersion
          IN  \/ previous = NoTime
              \/ /\ HistoryKey(last'.repo, last'.file, previous) \in entries
                 /\ \A j \in entries : j.version <= previous]_vars

\* C25 (as claimed): when mergePullRequest returns success the pull request's
\* stored status is merged and one merged notification for its creator has
\* been appended, also when a write of the final status update fails.
C25_MergeSuccessMeansMerged ==
    [][(/\ ops' = ops + 1 /\ last'.op = "mergePullRequest" /\ last'.ok) =>
          /\ pullRequests'[last'.pr].status = "merged"
          /\ Len(notifications') = Len(notifications) + 1
          /\ notifications'[Len(notifications')].userId = pullRequests[last'.pr].createdBy
          /\ notifications'[Len(notifications')].type = "pull_request_merged"]_vars

\* C26 (as claimed): for every pending change whose metadata status is
\* approved, the file has a history entry holding the pending bytes.
C26_ApprovedMeansCommitted ==
    \A k \in DOMAIN s3 :
        (k.folder = "pending-meta" /\ s3[k].body.status = "approved") =>
            /\ PendingKey(k.repoId, k.fileName, k.version) \in DOMAIN s3
            /\ \E h \in ListObjects(s3, "history", k.repoId, k.fileName) :
                  s3[h].body = s3[PendingKey(k.repoId, k.fileName, k.version)].body

\* C27 (as claimed): an access request that is approved or denied keeps its
\* status in every step.
C27_AccessStatusOnlyFromPending ==
    [][\A q \in DOMAIN accessRequests :
          accessRequests[q].status # "pending" =>
              /\ q \in DOMAIN accessRequests'
              /\ accessRequests'[q].status = accessRequests[q].status]_vars

\* C28 (as claimed): when no commit on the file is in progress and no commit
\* on it has failed, the file's current content is the bytes of its history
\* entry with the greatest timestamp.
C28_CurrentIsLatestHistory ==
    (inflight = {} /\ ~commitFailed) =>
        LET entries == ListObjects(s3, "history", CommitRepo, CommitFile)
        IN  \A k \in entries :
                (\A j \in entries : j.version <= k.version) =>
                    /\ FileKey(CommitRepo, CommitFile) \in DOMAIN s3
                    /\ s3[FileKey(CommitRepo, CommitFile)].body = s3[k].body

\* C29 (as claimed): whatever the interleaving of the merges of one pull
\* request, at most one of them copies files into the target repository (each
\* file gets at most one merge commit) and at most one merged notification of
\* the pull request exists.
C29_MergedOnce ==
    \A id \in DOMAIN pullRequests :
        /\ \A f \in FileNames :
              Cardinality(ListObjects(s3, "commits", pullRequests[id].targetRepoId, f)) <= 1
        /\ Cardinality({i \in DOMAIN notifications :
                           /\ notifications[i].type = "pull_request_merged"
                           /\ notifications[i].details.pullRequestId = id}) <= 1

\* C30 (as claimed): updatePullRequestStatus called by somebody who is neither
\* the target owner nor the creator of the pull request fails, whatever the
\* status asked for, and leaves the pull requests and the notifications as
\* they were.
C30_ThirdPartyCannotUpdate ==
    [][(/\ ops' = ops + 1
        /\ last'.op = "updatePullRequestStatus"
        /\ last'.pr \in DOMAIN pullRequests
        /\ last'.caller # pullRequests[last'.pr].targetOwnerId
        /\ last'.caller # pullRequests[last'.pr].createdBy)
       => /\ ~last'.ok
          /\ pullRequests' = pullRequests
          /\ notifications' = notifications]_vars

====
